---- MODULE Spec2Model ----
(***************************************************************************)
(* Model of the two FreeCAD macros that generate the Asus ROG Flow Z13     *)
(* back shell: 3Dmodels/Asus_FreeCad_macro.py (plain variant) and          *)
(* 3Dmodels/atlog_macro.py (variant with the engraved "ATLOG" text).       *)
(*                                                                         *)
(* All lengths are integers in micrometres (1 mm = 1000), so that every    *)
(* literal of the source (0.001, 0.05, 0.1, 0.5, 153.5 ...) is exact.      *)
(* The geometry kernel (Part) is modelled by what the macros read from it: *)
(* extents of solids, the edge list of the frame, and whether a call       *)
(* succeeds.  Which calls succeed is fixed by the variable kernel.         *)
(***************************************************************************)
EXTENDS Integers, Sequences, FiniteSets, TLC

VARIABLES
    variant,          \* which macro runs: "plain" or "engraved"
    kernel,           \* outcomes of the kernel calls that may fail
    run,              \* number of the current invocation of main
    pc,               \* position inside main
    shell_shape,      \* working shape of create_frame_shell
    fillet_log,       \* per fillet pass: what the pass printed
    doc,              \* objects registered in the current document
    docs,             \* names of the documents created so far
    left_shape,       \* left half after bisection
    right_shape,      \* right half after bisection
    vent_cutouts,     \* list returned by create_ventilation_cutouts_top
    left_cutouts,     \* list cut from the left half
    right_cutouts,    \* list cut from the right half
    text_engrave,     \* value returned by create_text_engraving
    left_final_shape, \* left half after its cuts
    right_final_shape,\* right half after its cuts
    right_placement,  \* Placement.Base.x given to the right final object
    calls,            \* kernel calls issued by the current run, in order
    error,            \* the exception that left main, "none" when there is none
    history,          \* summary of every finished run
    table,            \* the value every dimension assignment of the source gives
    dims              \* per function: the derived dimensions it computed

vars == <<variant, kernel, run, pc, shell_shape, fillet_log, doc, docs,
          left_shape, right_shape, vent_cutouts, left_cutouts, right_cutouts,
          text_engrave, left_final_shape, right_final_shape, right_placement,
          calls, error, history, table, dims>>

----------------------------------------------------------------------------
(* Bounds of the model *)

\* how many times main is invoked one after the other
MaxRuns == 2
\* how many characters of TEXT_STRING the kernel's wire list is modelled for
MaxChars == 2
\* by how many millimetres one assignment of the parameter table is raised
MaxChange == 2

----------------------------------------------------------------------------
(* Parameter table (micrometres) *)

TABLET_WIDTH == 300000
TABLET_HEIGHT == 204000
TABLET_THICKNESS == 15000
LIP_HEIGHT == 8000
SHELL_THICKNESS == 3000
CLEARANCE == 500
INNER_CORNER_RADIUS == 5000
OUTER_CORNER_RADIUS == 5000
OUTER_EDGE_RADIUS == 1500
TABLET_SPACE == 15000
LIP_OVERHANG == 3000
LIP_OVERHANG_BOTTOM == 9000
LIP_VERTICAL == 3000
bottom_margin == 10000
solid_top_area == 40000
solid_bottom_area == 40000
WEBCAM_FROM_TOP == 18000
WEBCAM_FROM_SIDE == 18000
WEBCAM_RADIUS == 6000

\* tolerances of the edge classification
AxisTol == 1
PosTol == 100
ZBand == 500

\* over-cut allowances written as literals in the source
CavityOvercut == 100
HoleOvercutBelow == 50
ThroughExtra == 1000
ThroughBelow == 500

cavity_width == TABLET_WIDTH + 2 * CLEARANCE
cavity_height == TABLET_HEIGHT + 2 * CLEARANCE
\* the clearance forgotten in the outer size
outer_width_NoClearance == TABLET_WIDTH + 2 * SHELL_THICKNESS
outer_width == cavity_width + 2 * SHELL_THICKNESS
outer_height == cavity_height + 2 * SHELL_THICKNESS
total_height == SHELL_THICKNESS + TABLET_SPACE + LIP_VERTICAL

----------------------------------------------------------------------------
(* Kernel primitives: a solid is known by its kind and its extents *)

Abs(n) == IF n < 0 THEN -n ELSE n
Min(a, b) == IF a < b THEN a ELSE b
Max(a, b) == IF a > b THEN a ELSE b

\* Part.makeBox(length, width, height, pnt)
makeBox(l, w, h, p) ==
    [kind |-> "box", r |-> 0,
     x0 |-> p[1], x1 |-> p[1] + l,
     y0 |-> p[2], y1 |-> p[2] + w,
     z0 |-> p[3], z1 |-> p[3] + h]

\* Part.makeCylinder(radius, height, pnt, dir), dir along +Z or +Y
makeCylinder(r, h, p, dir) ==
    IF dir = "z"
    THEN [kind |-> "cylz", r |-> r,
          x0 |-> p[1] - r, x1 |-> p[1] + r,
          y0 |-> p[2] - r, y1 |-> p[2] + r,
          z0 |-> p[3], z1 |-> p[3] + h]
    ELSE [kind |-> "cyly", r |-> r,
          x0 |-> p[1] - r, x1 |-> p[1] + r,
          y0 |-> p[2], y1 |-> p[2] + h,
          z0 |-> p[3] - r, z1 |-> p[3] + r]

Origin == <<0, 0, 0>>

NoShape == [kind |-> "none"]

\* The extents of the part of solid s that lies inside box b
Clip(s, b) ==
    [s EXCEPT !.x0 = Max(s.x0, b.x0), !.x1 = Min(s.x1, b.x1),
              !.y0 = Max(s.y0, b.y0), !.y1 = Min(s.y1, b.y1),
              !.z0 = Max(s.z0, b.z0), !.z1 = Min(s.z1, b.z1)]

Inside(s, b) ==
    /\ b.x0 <= s.x0 /\ s.x1 <= b.x1
    /\ b.y0 <= s.y0 /\ s.y1 <= b.y1
    /\ b.z0 <= s.z0 /\ s.z1 <= b.z1

\* two extents share a region of positive volume
Overlap(s, b) ==
    /\ Max(s.x0, b.x0) < Min(s.x1, b.x1)
    /\ Max(s.y0, b.y0) < Min(s.y1, b.y1)
    /\ Max(s.z0, b.z0) < Min(s.z1, b.z1)

----------------------------------------------------------------------------
(* Shapes: a base solid, the solids cut from it, the fillets applied to    *)
(* it, and the box it was intersected with (shape.common)                  *)

\* a.cut(b): b is removed from a
ShapeCut(a, b) == [a EXCEPT !.cuts = Append(a.cuts, b)]

\* a.common(box): bounding box of an intersection is inside both operands
ShapeCommon(a, b) == [a EXCEPT !.bbox = Clip(a.bbox, b), !.clips = Append(a.clips, b)]

\* a solid on its own, as a shape
ShapeOf(s) == [bbox |-> s, cuts |-> <<>>, fillets |-> <<>>, clips |-> <<>>]

\* shape.BoundBox
BoundBox(sh) == sh.bbox

----------------------------------------------------------------------------
(* Edges of the frame, as shape.Edges lists them.  An edge is known by its *)
(* two end points p1 = Vertexes[0].Point, p2 = Vertexes[1].Point, by the   *)
(* number nv of its vertexes (a closed circle has one) and by its curve.   *)

Line(p, q) == [p1 |-> p, p2 |-> q, nv |-> 2, curve |-> "line"]
Arc(p, q) == [p1 |-> p, p2 |-> q, nv |-> 2, curve |-> "arc"]
Circle(p) == [p1 |-> p, p2 |-> p, nv |-> 1, curve |-> "circle"]

\* the four horizontal edges of the rectangle [x0,x1] x [y0,y1] at height z
RectEdges(x0, x1, y0, y1, z) ==
    { Line(<<x0, y0, z>>, <<x1, y0, z>>), Line(<<x1, y0, z>>, <<x1, y1, z>>),
      Line(<<x1, y1, z>>, <<x0, y1, z>>), Line(<<x0, y1, z>>, <<x0, y0, z>>) }

\* the four vertical edges over the corners of that rectangle, from za to zb
CornerEdges(x0, x1, y0, y1, za, zb) ==
    { Line(<<x, y, za>>, <<x, y, zb>>) : x \in {x0, x1}, y \in {y0, y1} }

\* a prismatic opening of footprint s between the heights za and zb
PocketEdges(s, za, zb) ==
    RectEdges(s.x0, s.x1, s.y0, s.y1, za) \cup RectEdges(s.x0, s.x1, s.y0, s.y1, zb)
      \cup CornerEdges(s.x0, s.x1, s.y0, s.y1, za, zb)

\* a round through hole between za and zb: two circles and the seam
HoleEdges(s, za, zb) ==
    LET cx == (s.x0 + s.x1) \div 2
        cy == (s.y0 + s.y1) \div 2
    IN  { Circle(<<cx + s.r, cy, za>>), Circle(<<cx + s.r, cy, zb>>),
          Line(<<cx + s.r, cy, za>>, <<cx + s.r, cy, zb>>) }

\* Edges of outer_box.cut(lower_cavity).cut(upper_cavity).cut(bottom_hole)
\* .cut(webcam_hole): the outer box, the tablet bay, the opening through the
\* lip above it, the opening through the floor below it, the webcam hole.
UnfilletedEdges(sh) ==
    LET E == sh.bbox
        L == sh.cuts[1]
        U == sh.cuts[2]
        B == sh.cuts[3]
        C == sh.cuts[4]
        bayTop == Min(L.z1, E.z1)
    IN  PocketEdges(E, E.z0, E.z1)
          \cup PocketEdges(L, L.z0, bayTop)
          \cup PocketEdges(U, Max(U.z0, bayTop), Min(U.z1, E.z1))
          \cup PocketEdges(B, Max(B.z0, E.z0), Min(B.z1, L.z0))
          \cup HoleEdges(C, Max(C.z0, E.z0), Min(C.z1, L.z0))

IsVerticalLine(e) == e.p1[1] = e.p2[1] /\ e.p1[2] = e.p2[2] /\ e.p1[3] # e.p2[3]
IsHorizontal(e) == e.p1[3] = e.p2[3]

\* the side of the box a coordinate is on: +1 when the material continues
\* towards larger values, -1 otherwise
Inward(v, lo, hi) == IF 2 * v < lo + hi THEN 1 ELSE -1

\* makeFillet on one vertical corner edge: the edge is replaced by the two
\* tangent edges of the rounding and by an arc at each end
RoundedCorner(e, r, E) ==
    LET x == e.p1[1]
        y == e.p1[2]
        dx == Inward(x, E.x0, E.x1) * r
        dy == Inward(y, E.y0, E.y1) * r
    IN  { Line(<<x + dx, y, e.p1[3]>>, <<x + dx, y, e.p2[3]>>),
          Line(<<x, y + dy, e.p1[3]>>, <<x, y + dy, e.p2[3]>>),
          Arc(<<x + dx, y, e.p1[3]>>, <<x, y + dy, e.p1[3]>>),
          Arc(<<x + dx, y, e.p2[3]>>, <<x, y + dy, e.p2[3]>>) }

\* an end point of a neighbouring horizontal edge that sat on a rounded
\* corner moves along its edge to the start of the rounding
TrimPoint(p, q, sel, r) ==
    IF \E e \in sel : IsVerticalLine(e) /\ e.p1[1] = p[1] /\ e.p1[2] = p[2]
                        /\ (p[3] = e.p1[3] \/ p[3] = e.p2[3])
    THEN <<p[1] + (IF q[1] > p[1] THEN r ELSE IF q[1] < p[1] THEN -r ELSE 0),
           p[2] + (IF q[2] > p[2] THEN r ELSE IF q[2] < p[2] THEN -r ELSE 0),
           p[3]>>
    ELSE p

\* makeFillet on one horizontal outer edge: replaced by the tangent edge on
\* the horizontal face and the tangent edge on the vertical face
RoundedRim(e, r, E) ==
    LET dz == Inward(e.p1[3], E.z0, E.z1) * r
        in(p) == <<IF p[1] = E.x0 THEN p[1] + r ELSE IF p[1] = E.x1 THEN p[1] - r ELSE p[1],
                   IF p[2] = E.y0 THEN p[2] + r ELSE IF p[2] = E.y1 THEN p[2] - r ELSE p[2],
                   p[3]>>
    IN  { [e EXCEPT !.p1 = in(e.p1), !.p2 = in(e.p2)],
          [e EXCEPT !.p1 = <<e.p1[1], e.p1[2], e.p1[3] + dz>>,
                    !.p2 = <<e.p2[1], e.p2[2], e.p2[3] + dz>>] }

\* Edges of the shape returned by makeFillet(r, sel) on a shape of edges es
FilletedEdges(es, sel, r, E) ==
    LET kept == es \ sel
        trimmed == { IF e.curve = "line" /\ IsHorizontal(e)
                     THEN [e EXCEPT !.p1 = TrimPoint(e.p1, e.p2, sel, r),
                                    !.p2 = TrimPoint(e.p2, e.p1, sel, r)]
                     ELSE e : e \in kept }
    IN  trimmed \cup UNION { IF IsVerticalLine(e) THEN RoundedCorner(e, r, E)
                             ELSE RoundedRim(e, r, E) : e \in sel }

RECURSIVE EdgesAfter(_, _, _)
EdgesAfter(es, fs, E) ==
    IF fs = <<>> THEN es
    ELSE EdgesAfter(FilletedEdges(es, Head(fs).edges, Head(fs).radius, E), Tail(fs), E)

\* Ends of an edge in the order the kernel lists its vertexes
Oriented(e) == IF kernel.flip THEN [e EXCEPT !.p1 = e.p2, !.p2 = e.p1] ELSE e

\* shape.Edges
Edges(sh) == { Oriented(e) : e \in EdgesAfter(UnfilletedEdges(sh), sh.fillets, sh.bbox) }

\* shape.makeFillet(radius, edges), when the kernel succeeds
makeFillet(sh, r, es) ==
    [sh EXCEPT !.fillets = Append(sh.fillets,
        [radius |-> r, edges |-> { IF kernel.flip THEN [e EXCEPT !.p1 = e.p2, !.p2 = e.p1] ELSE e : e \in es }])]

----------------------------------------------------------------------------
(* create_frame_shell: the blank *)

outer_box == makeBox(outer_width, outer_height, total_height, Origin)

lower_cavity ==
    makeBox(cavity_width, cavity_height, TABLET_SPACE + CavityOvercut,
            <<SHELL_THICKNESS, SHELL_THICKNESS, SHELL_THICKNESS>>)

upper_cavity_width == cavity_width - 2 * LIP_OVERHANG
\* the lip taken as deep at the top as at the bottom
upper_cavity_height_Symmetric == cavity_height - 2 * LIP_OVERHANG_BOTTOM
upper_cavity_height == cavity_height - LIP_OVERHANG - LIP_OVERHANG_BOTTOM

upper_cavity ==
    makeBox(upper_cavity_width, upper_cavity_height, LIP_VERTICAL + CavityOvercut,
            <<SHELL_THICKNESS + LIP_OVERHANG, SHELL_THICKNESS + LIP_OVERHANG_BOTTOM,
              SHELL_THICKNESS + TABLET_SPACE>>)

bottom_hole_y_start == SHELL_THICKNESS + bottom_margin + solid_bottom_area
bottom_hole_y_size == cavity_height - 2 * bottom_margin - solid_top_area - solid_bottom_area

bottom_hole ==
    makeBox(cavity_width - 2 * bottom_margin, bottom_hole_y_size,
            SHELL_THICKNESS + CavityOvercut,
            <<SHELL_THICKNESS + bottom_margin, bottom_hole_y_start, -HoleOvercutBelow>>)

\* the hole measured from the right inner wall instead of the left one
webcam_x_FromRight == outer_width - SHELL_THICKNESS - WEBCAM_FROM_SIDE

webcam_x == SHELL_THICKNESS + WEBCAM_FROM_SIDE
webcam_y == outer_height - SHELL_THICKNESS - WEBCAM_FROM_TOP

webcam_hole ==
    makeCylinder(WEBCAM_RADIUS, SHELL_THICKNESS + ThroughExtra,
                 <<webcam_x, webcam_y, -ThroughBelow>>, "z")

\* shell_shape before the fillet passes
FrameBlank ==
    ShapeCut(ShapeCut(ShapeCut(ShapeCut(ShapeOf(outer_box), lower_cavity),
                               upper_cavity), bottom_hole), webcam_hole)

----------------------------------------------------------------------------
(* create_frame_shell: the three edge-selection predicates *)

\* "Vertical edge": abs(p1.x - p2.x) < 0.001 and abs(p1.y - p2.y) < 0.001
IsVertical(e) ==
    Abs(e.p1[1] - e.p2[1]) < AxisTol /\ Abs(e.p1[2] - e.p2[2]) < AxisTol

Near(a, b) == Abs(a - b) < PosTol

is_inner_corner(x, y) ==
    \/ Near(x, SHELL_THICKNESS) /\ Near(y, SHELL_THICKNESS)
    \/ Near(x, SHELL_THICKNESS) /\ Near(y, outer_height - SHELL_THICKNESS)
    \/ Near(x, outer_width - SHELL_THICKNESS) /\ Near(y, SHELL_THICKNESS)
    \/ Near(x, outer_width - SHELL_THICKNESS) /\ Near(y, outer_height - SHELL_THICKNESS)

\* pass 1
SelectInner(e) ==
    /\ IsVertical(e)
    /\ is_inner_corner(e.p1[1], e.p1[2])
    /\ e.p1[3] > SHELL_THICKNESS - ZBand
    /\ e.p1[3] < SHELL_THICKNESS + TABLET_SPACE + ZBand

is_outer_corner(x, y) ==
    \/ Abs(x) < PosTol /\ Abs(y) < PosTol
    \/ Abs(x) < PosTol /\ Near(y, outer_height)
    \/ Near(x, outer_width) /\ Abs(y) < PosTol
    \/ Near(x, outer_width) /\ Near(y, outer_height)

\* pass 2
SelectOuterVertical(e) ==
    IsVertical(e) /\ is_outer_corner(e.p1[1], e.p1[2])

\* pass 3 without the test on the sides: any horizontal edge of the top or
\* bottom face
SelectOuterHorizontal_AnyFace(e) ==
    /\ Abs(e.p1[3] - e.p2[3]) < AxisTol
    /\ (Near(e.p1[3], total_height) \/ Abs(e.p1[3]) < PosTol)

\* pass 3
SelectOuterHorizontal(e) ==
    /\ Abs(e.p1[3] - e.p2[3]) < AxisTol
    /\ (Near(e.p1[3], total_height) \/ Abs(e.p1[3]) < PosTol)
    /\ \/ Abs(Min(e.p1[1], e.p2[1])) < PosTol
       \/ Near(Max(e.p1[1], e.p2[1]), outer_width)
       \/ Abs(Min(e.p1[2], e.p2[2])) < PosTol
       \/ Near(Max(e.p1[2], e.p2[2]), outer_height)

Passes == 1 .. 3

Selects(k, e) ==
    CASE k = 1 -> SelectInner(e)
      [] k = 2 -> SelectOuterVertical(e)
      [] k = 3 -> SelectOuterHorizontal(e)

PassRadius(k) ==
    CASE k = 1 -> INNER_CORNER_RADIUS
      [] k = 2 -> OUTER_CORNER_RADIUS
      [] k = 3 -> OUTER_EDGE_RADIUS

\* every pass enumerating the edges of the unfilleted blank
EnumeratedShape_Blank(k) == FrameBlank

\* the shape whose edges pass k enumerates: the working shape as the passes
\* before it left it
EnumeratedShape(k) == shell_shape

\* edges_to_fillet_* : "if len(edge.Vertexes) < 2: continue", then the predicate
EdgesToFillet(k) ==
    { e \in Edges(EnumeratedShape(k)) : e.nv >= 2 /\ Selects(k, e) }

\* an except clause that falls back to the unfilleted blank
AfterFilletError_Unfilleted(sh, r, es) == [sh EXCEPT !.fillets = <<>>]

\* the working shape after "except Exception": the assignment did not happen
AfterFilletError(sh, r, es) == sh

Call(op, arg) == [op |-> op, arg |-> arg]

----------------------------------------------------------------------------
(* Compounds: the fusion of a list of solids *)

Field(q, f) == { q[i][f] : i \in 1 .. Len(q) }
SeqMin(q, f) == CHOOSE m \in Field(q, f) : \A n \in Field(q, f) : m <= n
SeqMax(q, f) == CHOOSE m \in Field(q, f) : \A n \in Field(q, f) : m >= n

\* cutouts[0].fuse(cutouts[1]).fuse(...): the parts and their common extents
Fuse(q) ==
    CHOOSE c \in
        { [kind |-> "compound", r |-> 0, parts |-> p,
           x0 |-> SeqMin(p, "x0"), x1 |-> SeqMax(p, "x1"),
           y0 |-> SeqMin(p, "y0"), y1 |-> SeqMax(p, "y1"),
           z0 |-> SeqMin(p, "z0"), z1 |-> SeqMax(p, "z1")] : p \in {q} } : TRUE

----------------------------------------------------------------------------
(* create_all_cutouts_left *)

LEFT_PORT_START_FROM_TOP == 23000
LEFT_PORT_CUT_LENGTH == 74000
LEFT_PORT2_START_FROM_TOP == 145000
LEFT_PORT2_CUT_LENGTH == 20000
KICKSTAND_START == 100000
KICKSTAND_END == 155000
KICKSTAND_LENGTH == KICKSTAND_END - KICKSTAND_START
kickstand_width == 10000
port_cut_width == 8000
port_cut_height == TABLET_SPACE + ThroughExtra

kickstand_y_start == cavity_height + SHELL_THICKNESS - KICKSTAND_END
kickstand_x_start == SHELL_THICKNESS

\* a port slot started 2 mm outside the wall
LeftPort_TooFarOut(start, len) ==
    makeBox(port_cut_width, len, port_cut_height,
            <<-2 * ThroughExtra, cavity_height + SHELL_THICKNESS - start - len,
              SHELL_THICKNESS>>)

LeftPort(start, len) ==
    makeBox(port_cut_width, len, port_cut_height,
            <<-ThroughExtra, cavity_height + SHELL_THICKNESS - start - len, SHELL_THICKNESS>>)

left_kickstand_cutout ==
    makeBox(kickstand_width, KICKSTAND_LENGTH, SHELL_THICKNESS + ThroughExtra,
            <<kickstand_x_start, kickstand_y_start, -ThroughBelow>>)

\* the list kept from one call to the next (a mutable default argument)
create_all_cutouts_left_Accumulating ==
    << LeftPort(LEFT_PORT_START_FROM_TOP, LEFT_PORT_CUT_LENGTH),
       LeftPort(LEFT_PORT2_START_FROM_TOP, LEFT_PORT2_CUT_LENGTH),
       left_kickstand_cutout >>
      \o (IF history # <<>> THEN <<left_kickstand_cutout>> ELSE <<>>)

create_all_cutouts_left ==
    << LeftPort(LEFT_PORT_START_FROM_TOP, LEFT_PORT_CUT_LENGTH),
       LeftPort(LEFT_PORT2_START_FROM_TOP, LEFT_PORT2_CUT_LENGTH),
       left_kickstand_cutout >>

----------------------------------------------------------------------------
(* create_all_cutouts_right *)

RIGHT_PORT_START_FROM_TOP == 20000
RIGHT_PORT_CUT_LENGTH == 72000
RIGHT_PORT2_START_FROM_TOP == 138000
RIGHT_PORT2_CUT_LENGTH == 37000
\* the right generator declares its own copies of the notch and slot sizes
RIGHT_KICKSTAND_START == 100000
RIGHT_KICKSTAND_END == 155000
RIGHT_KICKSTAND_LENGTH == RIGHT_KICKSTAND_END - RIGHT_KICKSTAND_START
right_kickstand_width == 10000
right_port_cut_width == 8000
right_port_cut_height == TABLET_SPACE + ThroughExtra
right_kickstand_y_start == cavity_height + SHELL_THICKNESS - RIGHT_KICKSTAND_END

RightPort(start, len) ==
    makeBox(right_port_cut_width, len, right_port_cut_height,
            <<outer_width - right_port_cut_width + ThroughExtra,
              cavity_height + SHELL_THICKNESS - start - len, SHELL_THICKNESS>>)

\* the right notch cut through the side wall itself
right_kickstand_cutout_AtWall ==
    makeBox(right_kickstand_width, RIGHT_KICKSTAND_LENGTH, SHELL_THICKNESS + ThroughExtra,
            <<outer_width - right_kickstand_width, right_kickstand_y_start, -ThroughBelow>>)

right_kickstand_cutout ==
    makeBox(right_kickstand_width, RIGHT_KICKSTAND_LENGTH, SHELL_THICKNESS + ThroughExtra,
            <<outer_width - SHELL_THICKNESS - right_kickstand_width, right_kickstand_y_start,
              -ThroughBelow>>)

create_all_cutouts_right ==
    << RightPort(RIGHT_PORT_START_FROM_TOP, RIGHT_PORT_CUT_LENGTH),
       RightPort(RIGHT_PORT2_START_FROM_TOP, RIGHT_PORT2_CUT_LENGTH),
       right_kickstand_cutout >>

----------------------------------------------------------------------------
(* create_ventilation_cutouts_top *)

VENT_START_FROM_EDGE == 15000
VENT_END_FROM_EDGE == 80000
HOLE_RADIUS == 3000
HOLE_SPACING == 8000
wall_thickness == 8000
hole_z == SHELL_THICKNESS + TABLET_SPACE \div 2

VentHole(x_position) ==
    makeCylinder(HOLE_RADIUS, wall_thickness + ThroughExtra,
                 <<x_position, outer_height - wall_thickness - ThroughBelow, hole_z>>, "y")

\* while x_position + HOLE_RADIUS < limit: append a hole; x_position += HOLE_SPACING
RECURSIVE VentRow(_, _)
VentRow(x_position, limit) ==
    IF x_position + HOLE_RADIUS < limit
    THEN <<VentHole(x_position)>> \o VentRow(x_position + HOLE_SPACING, limit)
    ELSE <<>>

left_vent_row ==
    VentRow(VENT_START_FROM_EDGE + SHELL_THICKNESS + HOLE_RADIUS,
            VENT_END_FROM_EDGE + SHELL_THICKNESS)

\* the right row started on the middle of the frame
right_vent_row_FromSeam ==
    VentRow(outer_width \div 2, outer_width - VENT_START_FROM_EDGE - SHELL_THICKNESS)

right_vent_row ==
    VentRow(outer_width - VENT_END_FROM_EDGE - SHELL_THICKNESS - HOLE_RADIUS,
            outer_width - VENT_START_FROM_EDGE - SHELL_THICKNESS)

create_ventilation_cutouts_top == left_vent_row \o right_vent_row

----------------------------------------------------------------------------
(* cut_frame_in_half *)

left_cutter == makeBox(outer_width \div 2, outer_height, total_height, Origin)

\* the right cutter placed at half the cavity width
right_cutter_FromCavity ==
    makeBox(outer_width \div 2, outer_height, total_height, <<cavity_width \div 2, 0, 0>>)

right_cutter ==
    makeBox(outer_width \div 2, outer_height, total_height, <<outer_width \div 2, 0, 0>>)

----------------------------------------------------------------------------
(* create_text_engraving (atlog_macro.py) *)

TEXT_SIZE == 15000
TEXT_DEPTH == 1000
TEXT_X_OFFSET == 15000
TEXT_Y_OFFSET == 15000
ExtrudeExtra == 200
CutNudge == 100

\* What the font gives: the macro takes TEXT_SIZE for the character height;
\* a glyph is as high as that or as a capital of that size, and the glyphs
\* stand one advance apart.
GlyphHeights == { (2 * TEXT_SIZE) \div 3, TEXT_SIZE }
GlyphAdvance == TEXT_SIZE
GlyphWidth == (4 * TEXT_SIZE) \div 5

CharOutcomes == {"nowires", "bullseye", "fallback", "fail"}

\* face.extrude(App.Vector(0, 0, TEXT_DEPTH + 0.2)) of the face of character i
CharSolid(i) ==
    [makeBox(GlyphWidth, kernel.glyph_h, TEXT_DEPTH + ExtrudeExtra,
             <<(i - 1) * GlyphAdvance, 0, 0>>) EXCEPT !.kind = "glyph"]

\* char_solids: a character is kept when the hole-aware face or, after its
\* failure, the outer-contour face could be built
RECURSIVE CharSolids(_)
CharSolids(i) ==
    IF i > Len(kernel.chars) THEN <<>>
    ELSE (IF kernel.chars[i] \in {"bullseye", "fallback"} THEN <<CharSolid(i)>> ELSE <<>>)
           \o CharSolids(i + 1)

\* both constructions tried for every character that has wires
CharAttempts_BothAlways(i) ==
    IF kernel.chars[i] = "nowires" THEN <<>>
    ELSE << Call("makeFace", [char |-> i, ok |-> kernel.chars[i] = "bullseye"]),
            Call("Face", [char |-> i, ok |-> kernel.chars[i] \in {"bullseye", "fallback"}]) >>

\* the face constructions the loop tries for character i, in order, each with
\* whether it and its extrusion went through: Part.makeFace with
\* FaceMakerBullseye in the try block, Part.Face of the first wire in the
\* except block
CharAttempts(i) ==
    CASE kernel.chars[i] = "nowires" -> <<>>
      [] kernel.chars[i] = "bullseye" ->
           << Call("makeFace", [char |-> i, ok |-> TRUE]) >>
      [] kernel.chars[i] = "fallback" ->
           << Call("makeFace", [char |-> i, ok |-> FALSE]),
              Call("Face", [char |-> i, ok |-> TRUE]) >>
      [] OTHER ->
           << Call("makeFace", [char |-> i, ok |-> FALSE]),
              Call("Face", [char |-> i, ok |-> FALSE]) >>

\* the constructions tried by one call of create_text_engraving, from
\* character i on; none when makeWireString raised or gave nothing
RECURSIVE TextAttempts(_)
TextAttempts(i) ==
    IF kernel.wires # "wires" \/ i > Len(kernel.chars) THEN <<>>
    ELSE CharAttempts(i) \o TextAttempts(i + 1)

\* shape.mirror(App.Vector(center_x, 0, 0), App.Vector(1, 0, 0)), twice_c = 2 * center_x
MirrorX(s, twice_c) == [s EXCEPT !.x0 = twice_c - s.x1, !.x1 = twice_c - s.x0]

\* shape.translate(App.Vector(dx, dy, dz))
Translate(s, dx, dy, dz) ==
    [s EXCEPT !.x0 = s.x0 + dx, !.x1 = s.x1 + dx,
              !.y0 = s.y0 + dy, !.y1 = s.y1 + dy,
              !.z0 = s.z0 + dz, !.z1 = s.z1 + dz]

target_x == TEXT_X_OFFSET
target_y == outer_height - TEXT_Y_OFFSET - TEXT_SIZE

\* the text solid after fusing, mirroring about its own centre and moving
\* its bounding box corner to the target, 0.1 mm below z = 0
PlacedText(solids) ==
    CHOOSE placed \in
        { Fuse([i \in 1 .. Len(mirrored.parts) |->
                  Translate(mirrored.parts[i], target_x - mirrored.x0,
                            target_y - mirrored.y0, -CutNudge - mirrored.z0)]) :
            mirrored \in { Fuse([i \in 1 .. Len(solids) |->
                                   MirrorX(solids[i], fused.x0 + fused.x1)]) :
                              fused \in {Fuse(solids)} } } : TRUE

\* Outcome of create_text_engraving: the exception it lets through, if any,
\* and the value it returns (NoShape for None)
create_text_engraving ==
    CASE kernel.wires = "raise" -> [raised |-> "makeWireString", value |-> NoShape]
      [] kernel.wires = "empty" -> [raised |-> "none", value |-> NoShape]
      [] OTHER ->
           CHOOSE res \in
               { IF char_solids = <<>>
                 THEN [raised |-> "none", value |-> NoShape]
                 ELSE [raised |-> "none", value |-> PlacedText(char_solids)] :
                   char_solids \in {CharSolids(1)} } : TRUE

----------------------------------------------------------------------------
(* The outcomes of the kernel calls that can fail *)

NoText == [wires |-> "none", chars |-> <<>>, glyph_h |-> 0]

TextOutcomes ==
    { [wires |-> w, chars |-> <<>>, glyph_h |-> 0] : w \in {"raise", "empty"} }
      \cup { [wires |-> "wires", chars |-> c, glyph_h |-> h] :
               c \in [1 .. MaxChars -> CharOutcomes], h \in GlyphHeights }

Kernels(v) ==
    { [fillet |-> f, flip |-> b, wires |-> t.wires, chars |-> t.chars, glyph_h |-> t.glyph_h] :
        f \in [Passes -> BOOLEAN], b \in BOOLEAN,
        t \in (IF v = "engraved" THEN TextOutcomes ELSE {NoText}) }

----------------------------------------------------------------------------
(* The document *)

\* App.newDocument("Z13_Proto"): the n-th document of the session
DocName(n) == <<"Z13_Proto", n>>

\* obj = doc.addObject("Part::Feature", name); obj.Shape = shape
addObject(d, name, shape) == Append(d, [name |-> name, shape |-> shape, visible |-> TRUE])

Registered(name) == \E i \in 1 .. Len(doc) : doc[i].name = name

ObjectShape(name) == (CHOOSE o \in { doc[i] : i \in 1 .. Len(doc) } : o.name = name).shape

Hide(d, names) ==
    [i \in 1 .. Len(d) |-> IF d[i].name \in names THEN [d[i] EXCEPT !.visible = FALSE] ELSE d[i]]

----------------------------------------------------------------------------
(* The parameter table as the source assigns it.  Four dimensions are        *)
(* assigned once at module level and read by every function; the others are *)
(* assigned inside the functions, some of them in several functions, and     *)
(* each function reads its own assignment.  A table gives the value of every *)
(* assignment, named by the function it stands in.                           *)

DefaultTable ==
    [ TABLET_WIDTH |-> TABLET_WIDTH,
      TABLET_HEIGHT |-> TABLET_HEIGHT,
      TABLET_THICKNESS |-> TABLET_THICKNESS,
      SHELL_THICKNESS |-> SHELL_THICKNESS,
      CLEARANCE |-> CLEARANCE,
      LIP_HEIGHT |-> LIP_HEIGHT,
      frame_TABLET_SPACE |-> TABLET_SPACE,
      frame_LIP_OVERHANG |-> LIP_OVERHANG,
      frame_LIP_OVERHANG_BOTTOM |-> LIP_OVERHANG_BOTTOM,
      frame_LIP_VERTICAL |-> LIP_VERTICAL,
      frame_bottom_margin |-> bottom_margin,
      frame_solid_top_area |-> solid_top_area,
      frame_solid_bottom_area |-> solid_bottom_area,
      left_TABLET_SPACE |-> TABLET_SPACE,
      vent_TABLET_SPACE |-> TABLET_SPACE,
      right_TABLET_SPACE |-> TABLET_SPACE,
      bisect_TABLET_SPACE |-> TABLET_SPACE,
      bisect_LIP_VERTICAL |-> LIP_VERTICAL ]

Sites == DOMAIN DefaultTable

\* the margins of the central bottom cutout
MarginSites == {"frame_bottom_margin", "frame_solid_top_area", "frame_solid_bottom_area"}

\* one assignment lowered by 1 mm or raised by up to MaxChange mm
SmallChanges == { 1000 * d : d \in (-1 .. MaxChange) \ {0} }
\* a margin raised until the cutout between the margins has no length or
\* no width left
LargeChanges == {52500, 105000, 145000}

\* the table as written, and the table with one assignment changed
Tables ==
    {DefaultTable}
      \cup { [DefaultTable EXCEPT ![s] = @ + d] : s \in Sites, d \in SmallChanges }
      \cup { [DefaultTable EXCEPT ![s] = @ + d] : s \in MarginSites, d \in LargeChanges }

NoDims == <<>>

\* create_frame_shell: the derived dimensions
frame_dims(t) ==
    [ cavity_width |-> t.TABLET_WIDTH + 2 * t.CLEARANCE,
      cavity_height |-> t.TABLET_HEIGHT + 2 * t.CLEARANCE,
      outer_width |-> t.TABLET_WIDTH + 2 * t.CLEARANCE + 2 * t.SHELL_THICKNESS,
      outer_height |-> t.TABLET_HEIGHT + 2 * t.CLEARANCE + 2 * t.SHELL_THICKNESS,
      TABLET_SPACE |-> t.frame_TABLET_SPACE,
      LIP_VERTICAL |-> t.frame_LIP_VERTICAL,
      total_height |-> t.SHELL_THICKNESS + t.frame_TABLET_SPACE + t.frame_LIP_VERTICAL ]

\* cut_frame_in_half: the derived dimensions
bisect_dims(t) ==
    [ cavity_width |-> t.TABLET_WIDTH + 2 * t.CLEARANCE,
      cavity_height |-> t.TABLET_HEIGHT + 2 * t.CLEARANCE,
      outer_width |-> t.TABLET_WIDTH + 2 * t.CLEARANCE + 2 * t.SHELL_THICKNESS,
      outer_height |-> t.TABLET_HEIGHT + 2 * t.CLEARANCE + 2 * t.SHELL_THICKNESS,
      TABLET_SPACE |-> t.bisect_TABLET_SPACE,
      LIP_VERTICAL |-> t.bisect_LIP_VERTICAL,
      total_height |-> t.SHELL_THICKNESS + t.bisect_TABLET_SPACE + t.bisect_LIP_VERTICAL ]

\* create_all_cutouts_left: the derived dimensions
left_dims(t) ==
    [ cavity_height |-> t.TABLET_HEIGHT + 2 * t.CLEARANCE,
      TABLET_SPACE |-> t.left_TABLET_SPACE ]

\* create_ventilation_cutouts_top: the derived dimensions
vent_dims(t) ==
    [ cavity_width |-> t.TABLET_WIDTH + 2 * t.CLEARANCE,
      cavity_height |-> t.TABLET_HEIGHT + 2 * t.CLEARANCE,
      outer_height |-> t.TABLET_HEIGHT + 2 * t.CLEARANCE + 2 * t.SHELL_THICKNESS,
      outer_width |-> t.TABLET_WIDTH + 2 * t.CLEARANCE + 2 * t.SHELL_THICKNESS,
      TABLET_SPACE |-> t.vent_TABLET_SPACE ]

\* create_all_cutouts_right: the derived dimensions
right_dims(t) ==
    [ cavity_width |-> t.TABLET_WIDTH + 2 * t.CLEARANCE,
      cavity_height |-> t.TABLET_HEIGHT + 2 * t.CLEARANCE,
      outer_width |-> t.TABLET_WIDTH + 2 * t.CLEARANCE + 2 * t.SHELL_THICKNESS,
      TABLET_SPACE |-> t.right_TABLET_SPACE ]

\* the arguments of a Part.makeBox call
BoxArgs(l, w, h, p) == [l |-> l, w |-> w, h |-> h, p |-> p]

\* Part.makeBox raises when a length, width or height is not positive
makeBoxAccepts(a) == a.l > 0 /\ a.w > 0 /\ a.h > 0

\* create_frame_shell: the boxes it asks the kernel for, in the order of the
\* calls: outer box, lower cavity, upper cavity, central bottom cutout
frame_boxes(t) ==
    LET d == frame_dims(t)
        S == t.SHELL_THICKNESS
    IN  << BoxArgs(d.outer_width, d.outer_height, d.total_height, Origin),
           BoxArgs(d.cavity_width, d.cavity_height, d.TABLET_SPACE + CavityOvercut,
                   <<S, S, S>>),
           BoxArgs(d.cavity_width - 2 * t.frame_LIP_OVERHANG,
                   d.cavity_height - t.frame_LIP_OVERHANG - t.frame_LIP_OVERHANG_BOTTOM,
                   d.LIP_VERTICAL + CavityOvercut,
                   <<S + t.frame_LIP_OVERHANG, S + t.frame_LIP_OVERHANG_BOTTOM,
                     S + d.TABLET_SPACE>>),
           BoxArgs(d.cavity_width - 2 * t.frame_bottom_margin,
                   d.cavity_height - 2 * t.frame_bottom_margin
                     - t.frame_solid_top_area - t.frame_solid_bottom_area,
                   S + CavityOvercut,
                   <<S + t.frame_bottom_margin,
                     S + t.frame_bottom_margin + t.frame_solid_bottom_area,
                     -HoleOvercutBelow>>) >>

\* create_frame_shell: the webcam cylinder
frame_webcam_hole(t) ==
    makeCylinder(WEBCAM_RADIUS, t.SHELL_THICKNESS + ThroughExtra,
                 << t.SHELL_THICKNESS + WEBCAM_FROM_SIDE,
                    frame_dims(t).outer_height - t.SHELL_THICKNESS - WEBCAM_FROM_TOP,
                    -ThroughBelow >>, "z")

BoxOf(a) == makeBox(a.l, a.w, a.h, a.p)

\* the frame of a builder that leaves out the central cutout when the margins
\* leave it no width or no length
frame_of_table_SkippingEmpty(t) ==
    LET b == frame_boxes(t)
        base == ShapeCut(ShapeCut(ShapeOf(BoxOf(b[1])), BoxOf(b[2])), BoxOf(b[3]))
    IN  [ raised |-> "none",
          value |-> ShapeCut(IF makeBoxAccepts(b[4]) THEN ShapeCut(base, BoxOf(b[4]))
                             ELSE base,
                             frame_webcam_hole(t)) ]

\* create_frame_shell up to the fillet passes: the shape it reaches, or the
\* exception of the first makeBox call the kernel rejects
frame_of_table(t) ==
    LET b == frame_boxes(t)
    IN  IF \A i \in 1 .. Len(b) : makeBoxAccepts(b[i])
        THEN [ raised |-> "none",
               value |-> ShapeCut(ShapeCut(ShapeCut(ShapeCut(ShapeOf(BoxOf(b[1])),
                                  BoxOf(b[2])), BoxOf(b[3])), BoxOf(b[4])),
                                  frame_webcam_hole(t)) ]
        ELSE [ raised |-> "makeBox", value |-> NoShape ]

\* cut_frame_in_half: the two cutter boxes
bisect_cutters(t) ==
    LET d == bisect_dims(t)
    IN  << makeBox(d.outer_width \div 2, d.outer_height, d.total_height, Origin),
           makeBox(d.outer_width \div 2, d.outer_height, d.total_height,
                   <<d.outer_width \div 2, 0, 0>>) >>

----------------------------------------------------------------------------
(* main, step by step *)

NoLog == [k \in Passes |-> "none"]

Init ==
    /\ variant \in {"plain", "engraved"}
    /\ kernel \in Kernels(variant)
    /\ run = 1
    /\ pc = "start"
    /\ shell_shape = NoShape
    /\ fillet_log = NoLog
    /\ doc = <<>>
    /\ docs = <<>>
    /\ left_shape = NoShape
    /\ right_shape = NoShape
    /\ vent_cutouts = <<>>
    /\ left_cutouts = <<>>
    /\ right_cutouts = <<>>
    /\ text_engrave = NoShape
    /\ left_final_shape = NoShape
    /\ right_final_shape = NoShape
    /\ right_placement = 0
    /\ calls = <<>>
    /\ error = "none"
    /\ history = <<>>
    /\ table = DefaultTable
    /\ dims = NoDims

\* doc = App.newDocument("Z13_Proto")
NewDocument ==
    /\ pc = "start"
    /\ docs' = Append(docs, DocName(Len(docs)))
    /\ doc' = <<>>
    /\ pc' = "frame"
    /\ UNCHANGED <<variant, kernel, run, shell_shape, fillet_log, left_shape, right_shape,
                   vent_cutouts, left_cutouts, right_cutouts, text_engrave,
                   left_final_shape, right_final_shape, right_placement, calls, error,
                   history,
                   table, dims>>

\* create_frame_shell up to the fillet passes
BuildFrame ==
    /\ pc = "frame"
    /\ shell_shape' = FrameBlank
    /\ calls' = calls \o << Call("makeBox", outer_box), Call("cut", lower_cavity),
                            Call("cut", upper_cavity), Call("cut", bottom_hole),
                            Call("cut", webcam_hole) >>
    /\ pc' = "pass1"
    /\ UNCHANGED <<variant, kernel, run, fillet_log, doc, docs, left_shape, right_shape,
                   vent_cutouts, left_cutouts, right_cutouts, text_engrave,
                   left_final_shape, right_final_shape, right_placement, error, history,
                   table, dims>>

PassPc(k) == CASE k = 1 -> "pass1" [] k = 2 -> "pass2" [] k = 3 -> "pass3"
AfterPassPc(k) == CASE k = 1 -> "pass2" [] k = 2 -> "pass3" [] k = 3 -> "register"

\* a pass without its try/except: the exception leaves main
AfterFilletErrorControl_Propagates(k) == [pc |-> "aborted", error |-> "makeFillet"]

\* where control is after the except clause of pass k
AfterFilletErrorControl(k) == [pc |-> AfterPassPc(k), error |-> "none"]

\* one fillet pass of create_frame_shell
FilletPass(k) ==
    /\ pc = PassPc(k)
    /\ \E es \in {EdgesToFillet(k)}, r \in {PassRadius(k)} :
           IF es # {} /\ r > 0
           THEN /\ calls' = Append(calls, Call("makeFillet",
                                [pass |-> k, radius |-> r, edges |-> es, on |-> shell_shape]))
                /\ IF kernel.fillet[k]
                   THEN /\ shell_shape' = makeFillet(shell_shape, r, es)
                        /\ fillet_log' = [fillet_log EXCEPT ![k] = "filleted"]
                        /\ pc' = AfterPassPc(k)
                        /\ error' = error
                   ELSE /\ shell_shape' = AfterFilletError(shell_shape, r, es)
                        /\ fillet_log' = [fillet_log EXCEPT ![k] = "warning"]
                        /\ pc' = AfterFilletErrorControl(k).pc
                        /\ error' = AfterFilletErrorControl(k).error
           ELSE /\ fillet_log' = [fillet_log EXCEPT ![k] = "skipped"]
                /\ pc' = AfterPassPc(k)
                /\ UNCHANGED <<shell_shape, calls, error>>
    /\ UNCHANGED <<variant, kernel, run, doc, docs, left_shape, right_shape,
                   vent_cutouts, left_cutouts, right_cutouts, text_engrave,
                   left_final_shape, right_final_shape, right_placement, history,
                   table, dims>>

\* end of create_frame_shell: the frame is registered
RegisterFrame ==
    /\ pc = "register"
    /\ doc' = addObject(doc, "Complete_Frame_U_Profile", shell_shape)
    /\ pc' = "bisect"
    /\ UNCHANGED <<variant, kernel, run, shell_shape, fillet_log, docs, left_shape,
                   right_shape, vent_cutouts, left_cutouts, right_cutouts, text_engrave,
                   left_final_shape, right_final_shape, right_placement, calls, error,
                   history,
                   table, dims>>

\* cut_frame_in_half
CutFrameInHalf ==
    /\ pc = "bisect"
    /\ \E frame \in {ObjectShape("Complete_Frame_U_Profile")} :
       \E l \in {ShapeCommon(frame, left_cutter)}, r \in {ShapeCommon(frame, right_cutter)} :
           /\ left_shape' = l
           /\ right_shape' = r
           /\ doc' = addObject(addObject(doc, "Left_Half", l), "Right_Half", r)
    /\ calls' = calls \o << Call("common", left_cutter), Call("common", right_cutter) >>
    /\ pc' = "left"
    /\ UNCHANGED <<variant, kernel, run, shell_shape, fillet_log, docs,
                   vent_cutouts, left_cutouts, right_cutouts, text_engrave,
                   left_final_shape, right_final_shape, right_placement, error, history,
                   table, dims>>

\* vent_cutouts and left_cutouts naming one and the same list
vent_cutouts_after_extend_Aliased(vents, cuts) == cuts

\* left_cutouts.extend(vent_cutouts): what vent_cutouts holds afterwards
vent_cutouts_after_extend(vents, cuts) == vents

\* main: the cutouts of the left half, fused and cut in one operation
CutLeft ==
    /\ pc = "left"
    /\ \E vents \in {create_ventilation_cutouts_top} :
       \E cuts \in {create_all_cutouts_left \o vents} :
       \E shape \in {IF cuts # <<>> THEN ShapeCut(left_shape, Fuse(cuts)) ELSE left_shape} :
           /\ vent_cutouts' = vent_cutouts_after_extend(vents, cuts)
           /\ left_cutouts' = cuts
           /\ left_final_shape' = shape
           /\ calls' = calls \o << Call("vents", vents), Call("cut", Fuse(cuts)) >>
           /\ IF variant = "plain"
              THEN /\ doc' = IF cuts # <<>> THEN addObject(doc, "Left_Half_Final", shape)
                             ELSE doc
                   /\ pc' = "right"
              ELSE /\ doc' = doc
                   /\ pc' = "engrave"
    /\ UNCHANGED <<variant, kernel, run, shell_shape, fillet_log, docs, left_shape,
                   right_shape, right_cutouts, text_engrave, right_final_shape,
                   right_placement, error, history,
                   table, dims>>

\* main of atlog_macro.py: the engraving, then Left_Half_Final is registered
Engrave ==
    /\ pc = "engrave"
    /\ \E res \in {create_text_engraving}, tried \in {TextAttempts(1)} :
           /\ calls' = calls \o tried \o <<Call("text", res)>>
           /\ IF res.raised # "none"
              THEN /\ pc' = "aborted"
                   /\ error' = res.raised
                   /\ UNCHANGED <<text_engrave, left_final_shape, doc>>
              ELSE /\ text_engrave' = res.value
                   /\ \E shape \in {IF res.value # NoShape
                                     THEN ShapeCut(left_final_shape, res.value)
                                     ELSE left_final_shape} :
                          /\ left_final_shape' = shape
                          /\ doc' = addObject(doc, "Left_Half_Final", shape)
                   /\ pc' = "right"
                   /\ error' = error
    /\ UNCHANGED <<variant, kernel, run, shell_shape, fillet_log, docs, left_shape,
                   right_shape, vent_cutouts, left_cutouts, right_cutouts,
                   right_final_shape, right_placement, history,
                   table, dims>>

\* main: the cutouts of the right half
CutRight ==
    /\ pc = "right"
    /\ \E cuts \in {create_all_cutouts_right \o vent_cutouts} :
       \E shape \in {IF cuts # <<>> THEN ShapeCut(right_shape, Fuse(cuts)) ELSE right_shape} :
           /\ right_cutouts' = cuts
           /\ right_final_shape' = shape
           /\ calls' = Append(calls, Call("cut", Fuse(cuts)))
           /\ doc' = IF cuts # <<>> THEN addObject(doc, "Right_Half_Final", shape) ELSE doc
    /\ pc' = "finish"
    /\ UNCHANGED <<variant, kernel, run, shell_shape, fillet_log, docs, left_shape,
                   right_shape, vent_cutouts, left_cutouts, text_engrave,
                   left_final_shape, right_placement, error, history,
                   table, dims>>

\* main: intermediate objects hidden, the right half moved aside for viewing
Finish ==
    /\ pc = "finish"
    /\ doc' = Hide(doc, {"Complete_Frame_U_Profile", "Left_Half", "Right_Half"})
    /\ right_placement' = (TABLET_WIDTH + 2 * CLEARANCE + 2 * SHELL_THICKNESS) \div 2 + 10000
    /\ history' = Append(history, [calls |-> calls, left |-> left_final_shape,
                                   right |-> right_final_shape, log |-> fillet_log,
                                   frame |-> shell_shape,
                                   halves |-> <<left_shape, right_shape>>])
    /\ pc' = "done"
    /\ UNCHANGED <<variant, kernel, run, shell_shape, fillet_log, docs, left_shape,
                   right_shape, vent_cutouts, left_cutouts, right_cutouts, text_engrave,
                   left_final_shape, right_final_shape, calls, error,
                   table, dims>>

\* the macro is run again in the same session: every local starts afresh
RunAgain ==
    /\ pc \in {"done", "aborted"}
    /\ run < MaxRuns
    /\ run' = run + 1
    /\ pc' = "start"
    /\ shell_shape' = NoShape
    /\ fillet_log' = NoLog
    /\ left_shape' = NoShape
    /\ right_shape' = NoShape
    /\ vent_cutouts' = <<>>
    /\ left_cutouts' = <<>>
    /\ right_cutouts' = <<>>
    /\ text_engrave' = NoShape
    /\ left_final_shape' = NoShape
    /\ right_final_shape' = NoShape
    /\ right_placement' = 0
    /\ calls' = <<>>
    /\ error' = "none"
    /\ UNCHANGED <<variant, kernel, doc, docs, history,
                   table, dims>>

Next ==
    \/ NewDocument
    \/ BuildFrame
    \/ \E k \in Passes : FilletPass(k)
    \/ RegisterFrame
    \/ CutFrameInHalf
    \/ CutLeft
    \/ Engrave
    \/ CutRight
    \/ Finish
    \/ RunAgain

Spec == Init /\ [][Next]_vars

\* main runs to its end unless an exception leaves it: every step is taken
FairSpec == Spec /\ WF_vars(Next)

----------------------------------------------------------------------------
(* The two macros run one after the other on the same kernel: first          *)
(* Asus_FreeCad_macro.py, then atlog_macro.py                                *)

\* the kernel outcomes are drawn for both macros; the plain one never asks
\* for the text outcomes
PairInit ==
    /\ variant = "plain"
    /\ kernel \in Kernels("engraved")
    /\ run = 1
    /\ pc = "start"
    /\ shell_shape = NoShape
    /\ fillet_log = NoLog
    /\ doc = <<>>
    /\ docs = <<>>
    /\ left_shape = NoShape
    /\ right_shape = NoShape
    /\ vent_cutouts = <<>>
    /\ left_cutouts = <<>>
    /\ right_cutouts = <<>>
    /\ text_engrave = NoShape
    /\ left_final_shape = NoShape
    /\ right_final_shape = NoShape
    /\ right_placement = 0
    /\ calls = <<>>
    /\ error = "none"
    /\ history = <<>>
    /\ table = DefaultTable
    /\ dims = NoDims

\* atlog_macro.py is started once Asus_FreeCad_macro.py has returned: main of
\* the second module starts with locals of its own
RunOtherMacro ==
    /\ pc = "done"
    /\ variant = "plain"
    /\ variant' = "engraved"
    /\ pc' = "start"
    /\ shell_shape' = NoShape
    /\ fillet_log' = NoLog
    /\ left_shape' = NoShape
    /\ right_shape' = NoShape
    /\ vent_cutouts' = <<>>
    /\ left_cutouts' = <<>>
    /\ right_cutouts' = <<>>
    /\ text_engrave' = NoShape
    /\ left_final_shape' = NoShape
    /\ right_final_shape' = NoShape
    /\ right_placement' = 0
    /\ calls' = <<>>
    /\ error' = "none"
    /\ UNCHANGED <<kernel, run, doc, docs, history,
                   table, dims>>

PairNext ==
    \/ NewDocument
    \/ BuildFrame
    \/ \E k \in Passes : FilletPass(k)
    \/ RegisterFrame
    \/ CutFrameInHalf
    \/ CutLeft
    \/ Engrave
    \/ CutRight
    \/ Finish
    \/ RunOtherMacro

PairSpec == PairInit /\ [][PairNext]_vars

----------------------------------------------------------------------------
(* main on a parameter table with one assignment changed: what each of its  *)
(* functions computes from the table, in the order main calls them          *)

TableInit ==
    /\ variant = "plain"
    /\ kernel = [fillet |-> [k \in Passes |-> TRUE], flip |-> FALSE,
                 wires |-> NoText.wires, chars |-> NoText.chars,
                 glyph_h |-> NoText.glyph_h]
    /\ run = 1
    /\ pc = "table"
    /\ shell_shape = NoShape
    /\ fillet_log = NoLog
    /\ doc = <<>>
    /\ docs = <<>>
    /\ left_shape = NoShape
    /\ right_shape = NoShape
    /\ vent_cutouts = <<>>
    /\ left_cutouts = <<>>
    /\ right_cutouts = <<>>
    /\ text_engrave = NoShape
    /\ left_final_shape = NoShape
    /\ right_final_shape = NoShape
    /\ right_placement = 0
    /\ calls = <<>>
    /\ error = "none"
    /\ history = <<>>
    /\ table \in Tables
    /\ dims = NoDims

\* create_frame_shell: the dimensions, the boxes and the cuts
FrameOfTable ==
    /\ pc = "table"
    /\ \E res \in {frame_of_table(table)} :
           IF res.raised = "none"
           THEN /\ shell_shape' = res.value
                /\ dims' = dims @@ ("create_frame_shell" :> frame_dims(table))
                /\ pc' = "table_bisect"
                /\ error' = error
           ELSE /\ pc' = "aborted"
                /\ error' = res.raised
                /\ UNCHANGED <<shell_shape, dims>>
    /\ UNCHANGED <<variant, kernel, run, fillet_log, doc, docs, left_shape, right_shape,
                   vent_cutouts, left_cutouts, right_cutouts, text_engrave,
                   left_final_shape, right_final_shape, right_placement, calls,
                   history, table>>

\* cut_frame_in_half: the dimensions and the two halves
BisectorOfTable ==
    /\ pc = "table_bisect"
    /\ \E c \in {bisect_cutters(table)} :
           /\ left_shape' = ShapeCommon(shell_shape, c[1])
           /\ right_shape' = ShapeCommon(shell_shape, c[2])
    /\ dims' = dims @@ ("cut_frame_in_half" :> bisect_dims(table))
    /\ pc' = "table_left"
    /\ UNCHANGED <<variant, kernel, run, shell_shape, fillet_log, doc, docs,
                   vent_cutouts, left_cutouts, right_cutouts, text_engrave,
                   left_final_shape, right_final_shape, right_placement, calls, error,
                   history, table>>

\* the dimensions a cutout generator computes
GeneratorDims(at, name, d, next) ==
    /\ pc = at
    /\ dims' = dims @@ (name :> d)
    /\ pc' = next
    /\ UNCHANGED <<variant, kernel, run, shell_shape, fillet_log, doc, docs, left_shape,
                   right_shape, vent_cutouts, left_cutouts, right_cutouts, text_engrave,
                   left_final_shape, right_final_shape, right_placement, calls, error,
                   history, table>>

LeftDimsOfTable ==
    GeneratorDims("table_left", "create_all_cutouts_left", left_dims(table), "table_vents")

VentDimsOfTable ==
    GeneratorDims("table_vents", "create_ventilation_cutouts_top", vent_dims(table),
                  "table_right")

RightDimsOfTable ==
    GeneratorDims("table_right", "create_all_cutouts_right", right_dims(table),
                  "table_done")

TableNext ==
    \/ FrameOfTable
    \/ BisectorOfTable
    \/ LeftDimsOfTable
    \/ VentDimsOfTable
    \/ RightDimsOfTable

TableSpec == TableInit /\ [][TableNext]_vars

----------------------------------------------------------------------------
(* Properties *)

Envelope == makeBox(307000, 211000, 21000, Origin)

\* every shape the run holds, in a local or in the document
ShapesInPlay ==
    { sh \in {shell_shape, left_shape, right_shape, left_final_shape, right_final_shape}
               \cup { doc[i].shape : i \in 1 .. Len(doc) } : sh # NoShape }

\* C1: the outer box of create_frame_shell measures
\* (TABLET_WIDTH + 2*CLEARANCE + 2*SHELL_THICKNESS) x (TABLET_HEIGHT + 2*CLEARANCE +
\* 2*SHELL_THICKNESS) x (SHELL_THICKNESS + TABLET_SPACE + LIP_VERTICAL), which is
\* 307 x 211 x 21 mm, and the bounding box of every shape made afterwards
\* (filleted, bisected, cut) stays inside that box.
C1_OuterEnvelope ==
    pc \notin {"start", "frame"} =>
        /\ calls[1].op = "makeBox"
        /\ calls[1].arg = Envelope
        /\ calls[1].arg.x1 - calls[1].arg.x0
             = TABLET_WIDTH + 2 * CLEARANCE + 2 * SHELL_THICKNESS
        /\ calls[1].arg.y1 - calls[1].arg.y0
             = TABLET_HEIGHT + 2 * CLEARANCE + 2 * SHELL_THICKNESS
        /\ calls[1].arg.z1 - calls[1].arg.z0
             = SHELL_THICKNESS + TABLET_SPACE + LIP_VERTICAL
        /\ \A sh \in ShapesInPlay : Inside(BoundBox(sh), Envelope)

C1_Witness ==
    /\ pc = "done"
    /\ Len(left_final_shape.fillets) = 3
    /\ left_final_shape.cuts # <<>>
    /\ BoundBox(right_final_shape).x0 = 153500
    /\ Registered("Right_Half_Final")

FilletedBefore(k) == { j \in Passes : j < k /\ fillet_log[j] = "filleted" }

\* C2: when the fillet call of a pass raises, the working shape after the pass
\* is the shape that entered it, and the fillets of the earlier passes that
\* succeeded are all still on it.
C2_FilletFailureKeepsShape ==
    [][\A k \in Passes :
         (fillet_log[k] = "none" /\ fillet_log'[k] = "warning") =>
             /\ shell_shape' = shell_shape
             /\ Len(shell_shape'.fillets) = Cardinality(FilletedBefore(k))]_vars

C2_Witness ==
    /\ pc = "pass3"
    /\ fillet_log[1] = "filleted"
    /\ fillet_log[2] = "warning"
    /\ Len(shell_shape.fillets) = 1

AllStagesRan ==
    /\ pc = "done"
    /\ \A k \in Passes : fillet_log[k] # "none"
    /\ Registered("Complete_Frame_U_Profile")
    /\ Registered("Left_Half") /\ Registered("Right_Half")
    /\ left_final_shape # NoShape /\ left_final_shape.cuts # left_shape.cuts
    /\ right_final_shape # NoShape /\ right_final_shape.cuts # right_shape.cuts
    /\ Registered("Left_Half_Final") /\ Registered("Right_Half_Final")

\* C3: in the plain macro, whatever the three fillet calls do, main goes on
\* through every later stage: the remaining passes are attempted, the frame is
\* registered and bisected, the cutouts are subtracted and Left_Half_Final and
\* Right_Half_Final end up registered.
C3_FilletsNeverStopMain ==
    [](variant = "plain" /\ pc = "pass1" => <>AllStagesRan)

C3_Witness ==
    /\ variant = "plain"
    /\ \A k \in Passes : fillet_log[k] = "warning"
    /\ AllStagesRan

TextUnavailable ==
    \/ kernel.wires \in {"raise", "empty"}
    \/ \A i \in 1 .. Len(kernel.chars) : kernel.chars[i] \in {"nowires", "fail"}

\* C4: in the engraved macro, when the text outline call returns nothing or
\* fails, or no character yields a face, create_text_engraving yields no shape,
\* the engraving cut is skipped and main is not aborted: Left_Half_Final is
\* registered with the shape the cutouts left.
C4_EngravingFailureNeverAborts ==
    (variant = "engraved" /\ TextUnavailable
       /\ pc \in {"right", "finish", "done", "aborted"}) =>
        /\ pc # "aborted"
        /\ text_engrave = NoShape
        /\ Registered("Left_Half_Final")
        /\ ObjectShape("Left_Half_Final") = ShapeCut(left_shape, Fuse(left_cutouts))

XLen(s) == Max(0, s.x1 - s.x0)

Bisected == left_shape # NoShape /\ right_shape # NoShape

Range(q) == { q[i] : i \in 1 .. Len(q) }

\* C5: the two cutter boxes of cut_frame_in_half cover the envelope and meet
\* only in the plane x = outer_width/2: each half is the frame inside its
\* cutter, and for every solid the frame is made of, the length inside the left
\* cutter plus the length inside the right cutter is its length inside the
\* envelope (left volume + right volume = frame volume).
C5_BisectionPartitions ==
    Bisected =>
        \E L \in {left_shape.clips[1]}, R \in {right_shape.clips[1]},
           frame \in {ObjectShape("Complete_Frame_U_Profile")} :
            /\ L.x0 = Envelope.x0 /\ R.x1 = Envelope.x1
            /\ L.x1 = R.x0 /\ 2 * L.x1 = outer_width
            /\ \A c \in {L, R} : /\ c.y0 = Envelope.y0 /\ c.y1 = Envelope.y1
                                 /\ c.z0 = Envelope.z0 /\ c.z1 = Envelope.z1
            /\ ~Overlap(L, R)
            /\ left_shape = ShapeCommon(frame, L) /\ right_shape = ShapeCommon(frame, R)
            /\ Len(left_shape.clips) = 1 /\ Len(right_shape.clips) = 1
            /\ \A s \in {frame.bbox} \cup Range(frame.cuts) :
                   XLen(Clip(s, L)) + XLen(Clip(s, R)) = XLen(Clip(s, Envelope))

C5_Witness ==
    /\ pc = "left"
    /\ Len(left_shape.fillets) = 2
    /\ BoundBox(left_shape).x1 = 153500
    /\ BoundBox(right_shape).x0 = 153500

\* the cutout solids the run has generated so far
GeneratedCutouts ==
    (IF shell_shape = NoShape THEN {} ELSE {shell_shape.cuts[3], shell_shape.cuts[4]})
      \cup Range(left_cutouts) \cup Range(right_cutouts) \cup Range(vent_cutouts)

\* C6 as claimed: every cutout solid (webcam cylinder, central bottom cutout,
\* port slots, kickstand notches, ventilation cylinders) lies entirely within
\* the outer envelope bounding box.
C6_CutoutsInsideEnvelope ==
    \A c \in GeneratedCutouts : Inside(c, Envelope)

Grow(b, d) ==
    [b EXCEPT !.x0 = b.x0 - d, !.x1 = b.x1 + d, !.y0 = b.y0 - d, !.y1 = b.y1 + d,
              !.z0 = b.z0 - d, !.z1 = b.z1 + d]

\* C6 as amended: every cutout solid overlaps the envelope and lies within the
\* envelope enlarged by 1 mm on every side.
C6_CutoutsWithinOvercut ==
    \A c \in GeneratedCutouts : Inside(c, Grow(Envelope, 1000)) /\ Overlap(c, Envelope)

C6_Witness ==
    /\ pc = "done"
    /\ Len(vent_cutouts) > 0
    /\ Len(right_cutouts) = 3 + Len(vent_cutouts)
    /\ \E c \in GeneratedCutouts : c.x0 = -1000
    /\ \E c \in GeneratedCutouts : c.y1 = Envelope.y1 + 500

\* the footprint of s meets the round hole c (axis along z)
RectMeetsDisc(s, c) ==
    \E cx \in {(c.x0 + c.x1) \div 2}, cy \in {(c.y0 + c.y1) \div 2} :
    \E dx \in {Max(0, Max(s.x0 - cx, cx - s.x1))}, dy \in {Max(0, Max(s.y0 - cy, cy - s.y1))} :
        dx < c.r /\ dy < c.r /\ dx * dx + dy * dy < c.r * c.r

RectsMeet(s, b) ==
    Max(s.x0, b.x0) < Min(s.x1, b.x1) /\ Max(s.y0, b.y0) < Min(s.y1, b.y1)

C7_DepthWithinFloor ==
    text_engrave # NoShape =>
        /\ text_engrave.z1 - Max(text_engrave.z0, 0) <= SHELL_THICKNESS
        /\ text_engrave.z1 < SHELL_THICKNESS

C7_FootprintOnSolidFloor ==
    text_engrave # NoShape =>
        \A g \in Range(text_engrave.parts) :
            /\ Inside([g EXCEPT !.z0 = 0, !.z1 = 0],
                      [BoundBox(left_shape) EXCEPT !.z0 = 0, !.z1 = 0])
            /\ ~RectsMeet(g, left_shape.cuts[3])
            /\ ~RectMeetsDisc(g, left_shape.cuts[4])

\* C7: the engraving solid stays inside the solid floor of the left half: it is
\* no deeper than SHELL_THICKNESS, does not reach the cavity side of the floor
\* at z = SHELL_THICKNESS, and its footprint lies in the left half clear of the
\* central bottom cutout and of the webcam hole.
C7_EngravingInSolidFloor ==
    C7_DepthWithinFloor /\ C7_FootprintOnSolidFloor

MirrorPoint(p) == <<outer_width - p[1], p[2], p[3]>>
MirrorEdge(e) == [e EXCEPT !.p1 = MirrorPoint(e.p1), !.p2 = MirrorPoint(e.p2)]
Ends(e) == [curve |-> e.curve, ends |-> {e.p1, e.p2}]

AllParts(cuts) ==
    UNION { IF cuts[i].kind = "compound" THEN Range(cuts[i].parts) ELSE {cuts[i]} :
              i \in 1 .. Len(cuts) }

\* a cut solid that goes through one of the four side faces of the envelope
PiercesWall(c) ==
    c.x0 <= 0 \/ c.x1 >= outer_width \/ c.y0 <= 0 \/ c.y1 >= outer_height

PortsAndKickstands == Range(create_all_cutouts_left) \cup Range(create_all_cutouts_right)

\* what is cut through the side walls of a half, ports and kickstand set aside
OuterBoundaryCuts(sh) ==
    { c \in AllParts(sh.cuts) :
        PiercesWall(c) /\ Overlap(c, BoundBox(sh)) /\ c \notin PortsAndKickstands }

C9_PredicatesMirror ==
    shell_shape # NoShape =>
        \A e \in Edges(shell_shape) : \A k \in Passes :
            Selects(k, e) <=> Selects(k, MirrorEdge(e))

C9_FilletsMirror ==
    pc = "done" =>
        /\ left_final_shape.fillets = right_final_shape.fillets
        /\ \A i \in 1 .. Len(left_final_shape.fillets) :
             \E es \in {left_final_shape.fillets[i].edges} :
                 { Ends(MirrorEdge(e)) : e \in es } = { Ends(e) : e \in es }

C9_OuterBoundaryMirror ==
    pc = "done" =>
        { MirrorX(c, outer_width) : c \in OuterBoundaryCuts(left_final_shape) }
          = OuterBoundaryCuts(right_final_shape)

\* C9: port slots and kickstand notches set aside, the left final shape
\* reflected in the plane x = outer_width/2 has the outer boundary and the
\* fillets of the right final shape, and every fillet pass selects an edge
\* exactly when it selects its mirror image.
C9_HalvesMirror ==
    C9_PredicatesMirror /\ C9_FilletsMirror /\ C9_OuterBoundaryMirror

IsFilletCall(c) == c.op = "makeFillet"
FilletCalls == SelectSeq(calls, IsFilletCall)

\* the shape pass number i of the calls made so far had to work on: the blank
\* for the first, else what the call before it left
ShapeLeftBy(F, i) ==
    IF i = 0 THEN FrameBlank
    ELSE IF kernel.fillet[F[i].arg.pass]
         THEN makeFillet(F[i].arg.on, F[i].arg.radius, F[i].arg.edges)
         ELSE F[i].arg.on

\* C10: the fillet calls are issued in the order inner, outer-vertical,
\* outer-horizontal, at most one per pass, with the radii 5.0, 5.0 and 1.5 mm;
\* each is issued on the shape the pass before it left and on all the edges of
\* that shape its predicate selects.
C10_PassOrder ==
    \E F \in {FilletCalls} :
        /\ \A i, j \in 1 .. Len(F) : i < j => F[i].arg.pass < F[j].arg.pass
        /\ \A i \in 1 .. Len(F) :
             /\ F[i].arg.radius = <<5000, 5000, 1500>>[F[i].arg.pass]
             /\ F[i].arg.on = ShapeLeftBy(F, i - 1)
             /\ F[i].arg.edges # {}
             /\ F[i].arg.edges
                  = { e \in Edges(F[i].arg.on) : e.nv >= 2 /\ Selects(F[i].arg.pass, e) }
        /\ \A k \in Passes : fillet_log[k] # "none" =>
             /\ \A j \in 1 .. k - 1 : fillet_log[j] # "none"
             /\ fillet_log[k] \in {"filleted", "warning"} =>
                  \E i \in 1 .. Len(F) : F[i].arg.pass = k
        /\ shell_shape # NoShape => shell_shape = ShapeLeftBy(F, Len(F))

C10_Witness ==
    /\ pc = "register"
    /\ Len(FilletCalls) = 3
    /\ fillet_log = <<"warning", "filleted", "filleted">>
    /\ Cardinality(FilletCalls[1].arg.edges) = 4
    /\ Cardinality(FilletCalls[3].arg.edges) = 16
    /\ FilletCalls[3].arg.on # FrameBlank

\* the ventilation cylinders among the solids subtracted from a shape
VentsCutFrom(sh) == { c \in AllParts(sh.cuts) : c.kind = "cyly" }

VentCalls == { i \in 1 .. Len(calls) : calls[i].op = "vents" }

\* C11: create_ventilation_cutouts_top is called once per run of main; the list
\* it returned is still what vent_cutouts holds when the right half is cut, and
\* the ventilation cylinders subtracted from the right half are exactly those
\* subtracted from the left half.
C11_VentsSharedOnce ==
    /\ Cardinality(VentCalls) <= 1
    /\ pc \in {"finish", "done"} =>
         /\ Cardinality(VentCalls) = 1
         /\ \A i \in VentCalls : calls[i].arg = vent_cutouts
         /\ SubSeq(left_cutouts, Len(create_all_cutouts_left) + 1, Len(left_cutouts))
              = vent_cutouts
         /\ SubSeq(right_cutouts, Len(create_all_cutouts_right) + 1, Len(right_cutouts))
              = vent_cutouts
         /\ VentsCutFrom(left_final_shape) = Range(vent_cutouts)
         /\ VentsCutFrom(right_final_shape) = VentsCutFrom(left_final_shape)

C11_Witness ==
    /\ pc = "done"
    /\ Len(vent_cutouts) = 17
    /\ Cardinality(VentsCutFrom(right_final_shape)) = 17
    /\ Cardinality(VentsCutFrom(left_final_shape)) = 17

\* the two cavities as create_frame_shell cut them from the outer box
CutLowerCavity == shell_shape.cuts[1]
CutUpperCavity == shell_shape.cuts[2]

\* C14: the footprint of the upper (lip) cavity lies inside the footprint of
\* the lower cavity, LIP_OVERHANG = 3 mm in from its left, right and top sides
\* and LIP_OVERHANG_BOTTOM = 9 mm in from its bottom side, so the lip is deeper
\* at the bottom edge than at the top and the sides.
C14_LipInset ==
    shell_shape # NoShape =>
        \E lo \in {CutLowerCavity}, up \in {CutUpperCavity} :
            /\ up.x0 - lo.x0 = LIP_OVERHANG /\ up.x0 - lo.x0 = 3000
            /\ lo.x1 - up.x1 = LIP_OVERHANG
            /\ lo.y1 - up.y1 = LIP_OVERHANG
            /\ up.y0 - lo.y0 = LIP_OVERHANG_BOTTOM /\ up.y0 - lo.y0 = 9000
            /\ up.y0 - lo.y0 > lo.y1 - up.y1
            /\ RectsMeet(up, lo)
            /\ lo.x0 <= up.x0 /\ up.x1 <= lo.x1 /\ lo.y0 <= up.y0 /\ up.y1 <= lo.y1

C14_Witness ==
    /\ pc = "register"
    /\ CutUpperCavity = upper_cavity
    /\ CutUpperCavity.x0 = 6000 /\ CutUpperCavity.y0 = 12000
    /\ CutUpperCavity.x1 = 301000 /\ CutUpperCavity.y1 = 205000
    /\ CutLowerCavity.x0 = 3000 /\ CutLowerCavity.y1 = 208000

\* C15 as claimed: the lower cavity removes exactly z = SHELL_THICKNESS ..
\* SHELL_THICKNESS + TABLET_SPACE (15 mm high), and the lip left above it spans
\* SHELL_THICKNESS + TABLET_SPACE .. total_height (LIP_VERTICAL = 3 mm thick).
C15_BayAndLipSpan ==
    shell_shape # NoShape =>
        \E lo \in {CutLowerCavity}, up \in {CutUpperCavity}, box \in {BoundBox(shell_shape)} :
            /\ lo.z0 = SHELL_THICKNESS
            /\ lo.z1 = SHELL_THICKNESS + TABLET_SPACE
            /\ lo.z1 - lo.z0 = TABLET_SPACE
            /\ up.z0 = SHELL_THICKNESS + TABLET_SPACE
            /\ box.z1 = total_height
            /\ box.z1 - lo.z1 = LIP_VERTICAL

\* what the frame builder does cut: the bay is 0.1 mm higher than TABLET_SPACE
\* and the lip above it 0.1 mm thinner than LIP_VERTICAL
C15_BayOvercut ==
    shell_shape # NoShape =>
        \E lo \in {CutLowerCavity}, up \in {CutUpperCavity}, box \in {BoundBox(shell_shape)} :
            /\ lo.z0 = SHELL_THICKNESS
            /\ lo.z1 = SHELL_THICKNESS + TABLET_SPACE + CavityOvercut
            /\ up.z0 = SHELL_THICKNESS + TABLET_SPACE
            /\ box.z1 - lo.z1 = LIP_VERTICAL - CavityOvercut

\* the X-extent of a solid and its image under x -> outer_width - x
XExtent(c) == <<c.x0, c.x1>>
MirrorXExtent(c) == <<outer_width - c.x1, outer_width - c.x0>>

\* C17: the X-extent of the right kickstand notch and of each right port slot
\* is the image under x -> outer_width - x of the X-extent of the left cutout in
\* the same place of the list, and the two kickstand notches have the same Y-
\* and Z-extent.
C17_RightCutoutsMirrored ==
    right_cutouts # <<>> =>
        /\ \A i \in 1 .. 3 : XExtent(right_cutouts[i]) = MirrorXExtent(left_cutouts[i])
        /\ \E l \in {left_cutouts[3]}, r \in {right_cutouts[3]} :
               /\ l.y0 = r.y0 /\ l.y1 = r.y1
               /\ l.z0 = r.z0 /\ l.z1 = r.z1

C17_Witness ==
    /\ pc = "done"
    /\ XExtent(left_cutouts[1]) = <<-1000, 7000>>
    /\ XExtent(right_cutouts[1]) = <<300000, 308000>>
    /\ XExtent(left_cutouts[3]) = <<3000, 13000>>
    /\ XExtent(right_cutouts[3]) = <<294000, 304000>>
    /\ right_cutouts[3].y0 = 53000 /\ right_cutouts[3].y1 = 108000

\* centre of a ventilation cylinder along x, and the side of the split plane
\* it is on
HoleCentre(c) == (c.x0 + c.x1) \div 2
LeftHoles == { c \in Range(vent_cutouts) : 2 * HoleCentre(c) < outer_width }
RightHoles == { c \in Range(vent_cutouts) : 2 * HoleCentre(c) > outer_width }

\* consecutive holes of one row are HOLE_SPACING apart
EvenlySpaced ==
    \A i \in 1 .. Len(vent_cutouts) - 1 :
        (vent_cutouts[i] \in LeftHoles <=> vent_cutouts[i + 1] \in LeftHoles) =>
            HoleCentre(vent_cutouts[i + 1]) - HoleCentre(vent_cutouts[i]) = HOLE_SPACING

\* the ventilation zone of a side: VENT_START_FROM_EDGE .. VENT_END_FROM_EDGE
\* inward from the inner face of the side wall
InLeftZone(c) ==
    /\ SHELL_THICKNESS + VENT_START_FROM_EDGE <= c.x0
    /\ c.x1 <= SHELL_THICKNESS + VENT_END_FROM_EDGE
InRightZone(c) ==
    /\ outer_width - SHELL_THICKNESS - VENT_END_FROM_EDGE <= c.x0
    /\ c.x1 <= outer_width - SHELL_THICKNESS - VENT_START_FROM_EDGE

\* C18 as claimed: the right row has as many holes as the left row, its
\* centres are the mirror images of the left centres across x = outer_width/2,
\* consecutive centres are HOLE_SPACING apart, and every hole lies within the
\* ventilation zone of its side.
C18_VentRowsSymmetric ==
    vent_cutouts # <<>> =>
        /\ Cardinality(RightHoles) = Cardinality(LeftHoles)
        /\ { HoleCentre(c) : c \in RightHoles }
             = { outer_width - HoleCentre(c) : c \in LeftHoles }
        /\ EvenlySpaced
        /\ \A c \in LeftHoles : InLeftZone(c)
        /\ \A c \in RightHoles : InRightZone(c)

\* the rows the generator does build: 8 holes on the left, all in their zone,
\* 9 on the right of which the first lies before the zone, all 8 mm apart
C18_RowsAsBuilt ==
    vent_cutouts # <<>> =>
        /\ { HoleCentre(c) : c \in LeftHoles } = { 21000 + 8000 * i : i \in 0 .. 7 }
        /\ { HoleCentre(c) : c \in RightHoles } = { 221000 + 8000 * i : i \in 0 .. 8 }
        /\ EvenlySpaced
        /\ \A c \in LeftHoles : InLeftZone(c)
        /\ { c \in RightHoles : ~InRightZone(c) } = { VentHole(221000) }

\* the two end points of an edge
EndPoints(e) == {e.p1, e.p2}

\* both end points at the same height, within 0.001 mm
Horizontal(e) == Abs(e.p1[3] - e.p2[3]) < 1
\* both end points above one another, within 0.001 mm
Upright(e) == Abs(e.p1[1] - e.p2[1]) < 1 /\ Abs(e.p1[2] - e.p2[2]) < 1

Within(a, b, tol) == Abs(a - b) < tol

\* an end point within 0.1 mm of one of the six face planes of the outer box
TouchesOuterFacePlane(e) ==
    \E p \in EndPoints(e) :
        \/ Within(p[1], 0, 100) \/ Within(p[1], outer_width, 100)
        \/ Within(p[2], 0, 100) \/ Within(p[2], outer_height, 100)
        \/ Within(p[3], 0, 100) \/ Within(p[3], total_height, 100)

\* the edge lies in the top or the bottom face plane of the outer box
OnTopOrBottomFace(e) == Within(e.p1[3], 0, 100) \/ Within(e.p1[3], total_height, 100)

\* an end point within 0.1 mm of one of the four side face planes
ReachesSideFace(e) ==
    \E p \in EndPoints(e) :
        \/ Within(p[1], 0, 100) \/ Within(p[1], outer_width, 100)
        \/ Within(p[2], 0, 100) \/ Within(p[2], outer_height, 100)

InnerCavityCorners ==
    {SHELL_THICKNESS, outer_width - SHELL_THICKNESS}
        \X {SHELL_THICKNESS, outer_height - SHELL_THICKNESS}
OuterBoxCorners == {0, outer_width} \X {0, outer_height}

\* the edge stands, within 0.1 mm, on one of the given corner points
StandsOn(e, corners) ==
    \E c \in corners : Within(e.p1[1], c[1], 100) /\ Within(e.p1[2], c[2], 100)

InInnerZRange(z) ==
    z > SHELL_THICKNESS - 500 /\ z < SHELL_THICKNESS + TABLET_SPACE + 500

\* the edges with two vertices of the shape a fillet call was issued on
TwoVertexEdges(c) == { e \in Edges(c.arg.on) : e.nv >= 2 }

\* what the claim says of the inner and the outer-vertical pass
C19_VerticalPasses ==
    \A i \in 1 .. Len(FilletCalls) : \E c \in {FilletCalls[i]} :
        /\ c.arg.pass = 1 =>
             \A e \in c.arg.edges :
                 /\ Upright(e) /\ StandsOn(e, InnerCavityCorners)
                 /\ \A p \in EndPoints(e) : InInnerZRange(p[3])
        /\ c.arg.pass = 2 =>
             \A e \in c.arg.edges : Upright(e) /\ StandsOn(e, OuterBoxCorners)

\* C19 as claimed: the outer-horizontal pass selects an edge exactly when it is
\* horizontal and touches an outer face plane of the box within 0.1 mm; the
\* inner pass selects only vertical edges at an inner-cavity corner with their
\* extent in the Z-range, the outer-vertical pass only vertical edges at an
\* outer box corner.
C19_PredicatesAsClaimed ==
    /\ C19_VerticalPasses
    /\ \A i \in 1 .. Len(FilletCalls) : \E c \in {FilletCalls[i]} :
           c.arg.pass = 3 =>
               c.arg.edges
                 = { e \in TwoVertexEdges(c) : Horizontal(e) /\ TouchesOuterFacePlane(e) }

\* C19 as amended: the outer-horizontal pass selects an edge exactly when it is
\* horizontal (end points at equal Z within 0.001 mm), lies in the top or the
\* bottom face plane (Z within 0.1 mm of 0 or of total_height) and reaches one
\* of the four side face planes within 0.1 mm; the inner pass selects only
\* vertical edges at an inner-cavity corner with their extent in the Z-range,
\* the outer-vertical pass only vertical edges at an outer box corner.
C19_PredicatesAmended ==
    /\ C19_VerticalPasses
    /\ \A i \in 1 .. Len(FilletCalls) : \E c \in {FilletCalls[i]} :
           c.arg.pass = 3 =>
               c.arg.edges
                 = { e \in TwoVertexEdges(c) :
                       Horizontal(e) /\ OnTopOrBottomFace(e) /\ ReachesSideFace(e) }

\* all three passes have issued their call, and the third one left aside
\* horizontal edges of the bottom face that reach no side face
C19_Witness ==
    /\ pc = "register"
    /\ Len(FilletCalls) = 3
    /\ Cardinality(FilletCalls[1].arg.edges) = 4
    /\ Cardinality(FilletCalls[2].arg.edges) = 4
    /\ Cardinality(FilletCalls[3].arg.edges) = 16
    /\ \E e \in TwoVertexEdges(FilletCalls[3]) :
           /\ Horizontal(e) /\ Within(e.p1[3], 0, 100)
           /\ ~ReachesSideFace(e)
           /\ e \notin FilletCalls[3].arg.edges

\* the central bottom cutout as create_frame_shell cut it from the outer box
CutBottomHole == shell_shape.cuts[3]

\* centred in the outer footprint and through the whole floor
C20_CentredThroughFloor ==
    shell_shape # NoShape =>
        \E h \in {CutBottomHole}, lo \in {CutLowerCavity} :
            /\ h.x0 + h.x1 = outer_width
            /\ h.y0 + h.y1 = outer_height
            /\ h.z0 <= 0 /\ h.z1 >= SHELL_THICKNESS
            /\ h.y0 - lo.y0 = lo.y1 - h.y1

\* C20 as claimed: the central bottom cutout is centred in the outer footprint,
\* covers z from 0 to SHELL_THICKNESS, and leaves 4 cm of solid floor at each
\* short end: it starts 40 mm after the bottom edge of the cavity floor and
\* stops 40 mm before its top edge.
C20_BottomCutoutKeeps4cm ==
    /\ C20_CentredThroughFloor
    /\ shell_shape # NoShape =>
           \E h \in {CutBottomHole}, lo \in {CutLowerCavity} :
               /\ h.y0 - lo.y0 = solid_bottom_area /\ h.y0 - lo.y0 = 40000
               /\ lo.y1 - h.y1 = solid_top_area /\ lo.y1 - h.y1 = 40000

\* what the frame builder does cut: the side margin is added to the solid area
\* at both short ends, which leaves 50 mm of floor inside the cavity
C20_BottomCutoutAsBuilt ==
    /\ C20_CentredThroughFloor
    /\ shell_shape # NoShape =>
           \E h \in {CutBottomHole}, lo \in {CutLowerCavity} :
               /\ h.y0 - lo.y0 = bottom_margin + solid_bottom_area
               /\ lo.y1 - h.y1 = bottom_margin + solid_top_area
               /\ h.x0 - lo.x0 = bottom_margin /\ lo.x1 - h.x1 = bottom_margin

\* the engraved macro has ended, after the plain one on the same kernel
BothMacrosEnded ==
    variant = "engraved" /\ history # <<>> /\ pc \in {"done", "aborted"}

\* what the engraved macro produced is what the plain macro produced, the
\* left final shape only when create_text_engraving gave no shape
SameAsPlain(plain) ==
    /\ Registered("Complete_Frame_U_Profile")
    /\ ObjectShape("Complete_Frame_U_Profile") = plain.frame
    /\ Registered("Left_Half") /\ ObjectShape("Left_Half") = plain.halves[1]
    /\ Registered("Right_Half") /\ ObjectShape("Right_Half") = plain.halves[2]
    /\ Registered("Right_Half_Final")
    /\ ObjectShape("Right_Half_Final") = plain.right
    /\ right_final_shape = plain.right
    /\ text_engrave = NoShape => left_final_shape = plain.left
    /\ text_engrave # NoShape => left_final_shape = ShapeCut(plain.left, text_engrave)

\* C16 as claimed: for the same parameters and kernel outcomes the engraved
\* macro produces the complete frame, the two halves and the right final shape
\* of the plain macro, and its left final shape whenever create_text_engraving
\* yields no shape.
C16_VariantsAgree ==
    BothMacrosEnded => SameAsPlain(history[1])

\* the same, for the runs of the engraved macro that reach their end
C16_VariantsAgreeWhenCompleted ==
    (BothMacrosEnded /\ pc = "done") => SameAsPlain(history[1])

\* the margins leave the central bottom cutout no width or no length
DegenerateBottomHole(t) ==
    \E b \in {frame_boxes(t)[4]} : b.l <= 0 \/ b.w <= 0

\* C12 as claimed: when the margins make the width or the length of the
\* central bottom cutout zero or negative, create_frame_shell raises no error
\* and produces the frame without that cutout.
C12_DegenerateCutoutIsNoOp ==
    (DegenerateBottomHole(table) /\ pc # "table") =>
        /\ error = "none"
        /\ pc # "aborted"
        /\ shell_shape = frame_of_table_SkippingEmpty(table).value

\* what happens instead: the makeBox call of the cutout raises and leaves main
C12_DegenerateCutoutRaises ==
    (DegenerateBottomHole(table) /\ pc # "table") =>
        /\ error = "makeBox"
        /\ pc = "aborted"
        /\ shell_shape = NoShape

\* the dimensions computed by more than one function
SharedDims(f, g) == DOMAIN dims[f] \cap DOMAIN dims[g]

\* C13 as claimed: whatever single assignment of the parameter table is
\* changed, every function that computes a dimension (cavity size, outer box
\* size, tablet space, total height) computes the same value for it, the same
\* linear function of the table: no function works from a copy of its own.
C13_DimensionsPropagate ==
    /\ \A f \in DOMAIN dims, g \in DOMAIN dims :
           \A n \in SharedDims(f, g) : dims[f][n] = dims[g][n]
    /\ (left_shape # NoShape /\ right_shape # NoShape) =>
           /\ BoundBox(left_shape).z1 = BoundBox(shell_shape).z1
           /\ BoundBox(right_shape).z1 = BoundBox(shell_shape).z1

\* the dimensions derived from the module-level constants alone do propagate
C13_ModuleLevelPropagates ==
    \A f \in DOMAIN dims, g \in DOMAIN dims :
        \A n \in SharedDims(f, g) \ {"TABLET_SPACE", "LIP_VERTICAL", "total_height"} :
            /\ dims[f][n] = dims[g][n]
            /\ n = "cavity_width" => dims[f][n] = table.TABLET_WIDTH + 2 * table.CLEARANCE
            /\ n = "outer_height" =>
                 dims[f][n] = table.TABLET_HEIGHT + 2 * table.CLEARANCE
                                + 2 * table.SHELL_THICKNESS

\* on the table as written the functions of the table give the frame and the
\* halves of main
TableAsWritten ==
    (table = DefaultTable /\ pc = "table_done") =>
        /\ shell_shape = FrameBlank
        /\ left_shape = ShapeCommon(FrameBlank, left_cutter)
        /\ right_shape = ShapeCommon(FrameBlank, right_cutter)

\* the two kickstand notches as main cut them, third in each list
LeftNotch == left_cutouts[3]
RightNotch == right_cutouts[3]

NotchesCut == left_cutouts # <<>> /\ right_cutouts # <<>>

\* both notches go through the whole floor
C21_NotchesThroughFloor ==
    NotchesCut =>
        \A n \in {LeftNotch, RightNotch} : n.z0 <= 0 /\ n.z1 >= SHELL_THICKNESS

\* C21 as claimed: each kickstand notch lies in the area of the central bottom
\* cutout and not in the side margin: the left notch starts at or after
\* x = SHELL_THICKNESS + bottom_margin (13 mm), the right notch ends at or
\* before x = outer_width - SHELL_THICKNESS - bottom_margin, and both go
\* through the whole floor.
C21_NotchesInCentralArea ==
    /\ C21_NotchesThroughFloor
    /\ NotchesCut =>
           /\ LeftNotch.x0 >= SHELL_THICKNESS + bottom_margin
           /\ LeftNotch.x0 >= 13000
           /\ RightNotch.x1 <= outer_width - SHELL_THICKNESS - bottom_margin

\* where the generators do put the notches: in the side margin, between the
\* inner face of the side wall and the edge of the central bottom cutout
C21_NotchesInSideMargin ==
    /\ C21_NotchesThroughFloor
    /\ NotchesCut =>
           /\ LeftNotch.x0 = SHELL_THICKNESS
           /\ LeftNotch.x1 = SHELL_THICKNESS + bottom_margin
           /\ RightNotch.x0 = outer_width - SHELL_THICKNESS - bottom_margin
           /\ RightNotch.x1 = outer_width - SHELL_THICKNESS
           /\ \A n \in {LeftNotch, RightNotch} : ~RectsMeet(n, bottom_hole)

\* the webcam hole as create_frame_shell cut it from the outer box
CutWebcamHole == shell_shape.cuts[4]

\* C22: the webcam hole is a through-hole in the solid floor at the top left:
\* its circular footprint lies inside the footprint of the cavity and entirely
\* in the left half (x < outer_width / 2), does not meet the central bottom
\* cutout, and the cylinder covers z from 0 to SHELL_THICKNESS.
C22_WebcamHoleInSolidFloor ==
    shell_shape # NoShape =>
        \E w \in {CutWebcamHole}, lo \in {CutLowerCavity}, h \in {CutBottomHole} :
            /\ w.kind = "cylz" /\ w.r > 0
            /\ w.x1 - w.x0 = 2 * w.r /\ w.y1 - w.y0 = 2 * w.r
            /\ lo.x0 <= w.x0 /\ w.x1 <= lo.x1
            /\ lo.y0 <= w.y0 /\ w.y1 <= lo.y1
            /\ 2 * w.x1 < outer_width
            /\ ~RectMeetsDisc(h, w)
            /\ w.y0 + w.y1 > outer_height
            /\ w.z0 <= 0 /\ w.z1 >= SHELL_THICKNESS

C22_Witness ==
    /\ pc = "done"
    /\ shell_shape # NoShape
    /\ CutWebcamHole.x0 = 15000 /\ CutWebcamHole.x1 = 27000
    /\ CutWebcamHole.y0 = 184000 /\ CutWebcamHole.y1 = 196000
    /\ CutWebcamHole.z0 = -500 /\ CutWebcamHole.z1 = 3500
    /\ CutBottomHole.y1 = 158000
    /\ left_shape # NoShape

\* the port slots as main cut them: the first two solids of each list
LeftSlots == {left_cutouts[1], left_cutouts[2]}
RightSlots == {right_cutouts[1], right_cutouts[2]}

\* every slot spans the whole thickness of its side wall and leaves the floor
C23_SlotsPierceWall ==
    NotchesCut =>
        /\ \A s \in LeftSlots : s.x0 <= 0 /\ s.x1 >= SHELL_THICKNESS
        /\ \A s \in RightSlots : s.x0 <= outer_width - SHELL_THICKNESS /\ s.x1 >= outer_width
        /\ \A s \in LeftSlots \cup RightSlots : s.z0 = SHELL_THICKNESS

\* C23 as claimed: every port slot pierces its side wall completely and goes
\* through the entire vertical lip: its X-extent covers the whole wall
\* thickness, its Z-extent starts at SHELL_THICKNESS so that the floor is never
\* cut, and it reaches through the full height of the wall above the floor, up
\* to total_height.
C23_SlotsThroughLip ==
    /\ C23_SlotsPierceWall
    /\ NotchesCut =>
           \A s \in LeftSlots \cup RightSlots : s.z1 >= total_height

\* what the generators cut: a slot one millimetre higher than the tablet
\* space, which stops inside the lip and leaves a bridge over the slot
C23_SlotsStopInLip ==
    /\ C23_SlotsPierceWall
    /\ NotchesCut =>
           \A s \in LeftSlots \cup RightSlots :
               /\ s.z1 = SHELL_THICKNESS + TABLET_SPACE + ThroughExtra
               /\ s.z1 > SHELL_THICKNESS + TABLET_SPACE
               /\ total_height - s.z1 = LIP_VERTICAL - ThroughExtra
               /\ s.z1 < total_height

\* the floor slab of the shell: the outer footprint between z = 0 and the
\* top of the floor
FloorSlab ==
    [x0 |-> 0, x1 |-> outer_width, y0 |-> 0, y1 |-> outer_height,
     z0 |-> 0, z1 |-> SHELL_THICKNESS]

\* the engraving has been cut from the left half
EngravingCut ==
    /\ text_engrave # NoShape
    /\ left_final_shape # NoShape
    /\ text_engrave \in Range(left_final_shape.cuts)

\* C24 as claimed: the engraved cavity is exactly TEXT_DEPTH (1.0 mm) deep:
\* the part of every character solid that lies inside the floor spans z from
\* 0 to TEXT_DEPTH.
C24_DepthIsTextDepth ==
    EngravingCut =>
        \A g \in Range(text_engrave.parts) :
            \E c \in {Clip(g, FloorSlab)} :
                /\ c.z0 = 0
                /\ c.z1 = TEXT_DEPTH
                /\ c.z1 - c.z0 = 1000

\* the cavity the macro does cut: the solid is extruded 0.2 mm more than
\* TEXT_DEPTH and lowered by 0.1 mm only, so 1.1 mm of it is inside the floor
C24_DepthAsBuilt ==
    EngravingCut =>
        \A g \in Range(text_engrave.parts) :
            \E c \in {Clip(g, FloorSlab)} :
                /\ g.z0 = -CutNudge
                /\ g.z1 - g.z0 = TEXT_DEPTH + ExtrudeExtra
                /\ c.z0 = 0
                /\ c.z1 = TEXT_DEPTH + ExtrudeExtra - CutNudge
                /\ c.z1 = 1100

C24_EngravingReached ==
    /\ pc = "done"
    /\ EngravingCut
    /\ Len(text_engrave.parts) = 2

\* positions in the call log of the current run
FaceTries == { k \in 1 .. Len(calls) : calls[k].op \in {"makeFace", "Face"} }
TextReturns == { k \in 1 .. Len(calls) : calls[k].op = "text" /\ calls[k].arg.raised = "none" }

TriesOf(i, op) == { k \in FaceTries : calls[k].op = op /\ calls[k].arg.char = i }

\* the characters for which one of the two constructions went through
CharsBuilt == { calls[k].arg.char : k \in { t \in FaceTries : calls[t].arg.ok } }

\* where the solid of character i stands in the returned text, the text being
\* mirrored about its own centre and its left edge moved to target_x
PlaceOfChar(i, built) ==
    target_x + ((CHOOSE m \in built : \A j \in built : j <= m) - i) * GlyphAdvance

\* C25: create_text_engraving handles each character on its own: the
\* hole-aware face is tried first, the outer-contour fallback only when the
\* first construction failed, a character for which both fail is left out
\* without any effect on the others, and the function returns no shape only
\* when no character gave a solid; otherwise the result holds exactly the
\* characters for which one of the two constructions went through.
C25_CharactersIndependent ==
    \A t \in TextReturns :
        /\ \A k \in FaceTries : k < t
        /\ \A i \in 1 .. Len(kernel.chars) :
               /\ Cardinality(TriesOf(i, "makeFace")) = (IF kernel.chars[i] = "nowires" THEN 0 ELSE 1)
               /\ Cardinality(TriesOf(i, "Face")) <= 1
               /\ \A k \in TriesOf(i, "makeFace") : calls[k].arg.ok = (kernel.chars[i] = "bullseye")
               /\ \A f \in TriesOf(i, "Face") :
                      /\ \E k \in TriesOf(i, "makeFace") : k < f /\ ~calls[k].arg.ok
                      /\ calls[f].arg.ok = (kernel.chars[i] = "fallback")
               /\ \A k \in TriesOf(i, "makeFace") :
                      ~calls[k].arg.ok => TriesOf(i, "Face") # {}
        /\ (calls[t].arg.value = NoShape) = (CharsBuilt = {})
        /\ CharsBuilt # {} =>
               \E parts \in {calls[t].arg.value.parts} :
                   /\ Len(parts) = Cardinality(CharsBuilt)
                   /\ { parts[n].x0 : n \in 1 .. Len(parts) }
                        = { PlaceOfChar(i, CharsBuilt) : i \in CharsBuilt }
                   /\ \A n \in 1 .. Len(parts) :
                          /\ parts[n].kind = "glyph"
                          /\ parts[n].x1 - parts[n].x0 = GlyphWidth
                          /\ parts[n].y1 - parts[n].y0 = kernel.glyph_h

\* a first character that fails both ways and a second one built by the
\* fallback only
C25_Witness ==
    /\ pc = "done"
    /\ kernel.wires = "wires"
    /\ Len(kernel.chars) >= 2
    /\ kernel.chars[1] = "fail" /\ kernel.chars[2] = "fallback"
    /\ TextReturns # {}
    /\ Cardinality(FaceTries) >= 4
    /\ CharsBuilt = {2}
    /\ text_engrave # NoShape
    /\ Len(text_engrave.parts) = Cardinality({ i \in 1 .. Len(kernel.chars) : kernel.chars[i] = "fallback" })

\* the cutouts made for one half only: its port slots, its kickstand notch,
\* and for the left half the webcam hole
LeftOnlyCutouts == LeftSlots \cup {LeftNotch, CutWebcamHole}
RightOnlyCutouts == RightSlots \cup {RightNotch}

StrictlyLeft(c) == 2 * c.x1 < outer_width
StrictlyRight(c) == 2 * c.x0 > outer_width

HalvesCut == NotchesCut /\ Bisected /\ shell_shape # NoShape /\ vent_cutouts # <<>>

\* C26: no cutout straddles or touches the split plane x = outer_width / 2:
\* every cutout of the left half (left port slots, left kickstand notch, webcam
\* hole, left row of vents) lies strictly at x < outer_width / 2, every cutout
\* of the right half (right port slots, right kickstand notch, right row of
\* vents) strictly at x > outer_width / 2, so that the shared vents, subtracted
\* from a half, remove material through the row of that half only and the seam
\* faces stay whole.
C26_CutoutsClearOfSplitPlane ==
    HalvesCut =>
        /\ \A c \in LeftOnlyCutouts : StrictlyLeft(c)
        /\ \A c \in RightOnlyCutouts : StrictlyRight(c)
        /\ \A v \in Range(vent_cutouts) : StrictlyLeft(v) \/ StrictlyRight(v)
        /\ \A v \in LeftHoles : StrictlyLeft(v)
        /\ \A v \in RightHoles : StrictlyRight(v)
        /\ LeftHoles # {} /\ RightHoles # {}
        /\ Range(left_cutouts) = LeftSlots \cup {LeftNotch} \cup Range(vent_cutouts)
        /\ Range(right_cutouts) = RightOnlyCutouts \cup Range(vent_cutouts)
        /\ { c \in Range(left_cutouts) : Overlap(c, BoundBox(left_shape)) }
             = LeftSlots \cup {LeftNotch} \cup LeftHoles
        /\ { c \in Range(right_cutouts) : Overlap(c, BoundBox(right_shape)) }
             = RightOnlyCutouts \cup RightHoles
        /\ \A c \in Range(left_cutouts) \cup Range(right_cutouts) \cup {CutWebcamHole} :
               ~(2 * c.x0 <= outer_width /\ outer_width <= 2 * c.x1)
        /\ 2 * BoundBox(left_shape).x1 = outer_width
        /\ 2 * BoundBox(right_shape).x0 = outer_width

C26_Witness ==
    /\ pc = "done"
    /\ HalvesCut
    /\ Cardinality(LeftHoles) = 8 /\ Cardinality(RightHoles) = 9
    /\ \E v \in LeftHoles : v.x1 = 80000
    /\ \E v \in RightHoles : v.x0 = 218000
    /\ LeftNotch.x1 = 13000 /\ RightNotch.x0 = 294000
    /\ right_final_shape # NoShape
    /\ Len(right_final_shape.cuts) > Len(right_shape.cuts)

====
